---- MODULE Spec2Model ----
(***************************************************************************)
(* Model of the Gmail job-alert ingestion pipeline:                        *)
(*   - useFetchEmails.fetchEmails / stopFetching (five-phase orchestrator) *)
(*   - gmailService listMessageIds / getMessages / archiveMessages         *)
(*   - jobService getAllJobs / DedupCache / addJobIfNotExists              *)
(*   - parserRegistry.parseEmail (sender dispatch)                         *)
(* A URL is a character string written as its sequence of runs             *)
(* [c |-> character, n |-> repetitions] (adjacent runs differ in c), so    *)
(* that URLs longer than MAX_URL_LENGTH stay small; StrLen and Slice are   *)
(* length and String.prototype.slice(0, n) on that form.  The From header  *)
(* is a sequence of lexical tokens (display words, angle brackets and      *)
(* domain names in either letter case).                                    *)
(***************************************************************************)
EXTENDS Integers, Sequences, FiniteSets, TLC

VARIABLES
  store,          \* Firestore collection "jobs": sequence of documents
  jobsCache,      \* jobService module variable: NoJobs (null) or the cached Job[]
  runNo,          \* number of fetchEmails invocations so far
  abortRef,       \* abortRef.current: 0 (null) or the run that created the controller
  aborted,        \* abortRef.current.signal.aborted (FALSE while abortRef is null)
  shouldArchive,  \* options.shouldArchive of the current run
  inboxN,         \* how many messages match the query of the current run
  corrupt,        \* whether the last matching message has an unparseable Date
  pc,             \* position of fetchEmails (which await it is suspended at)
  ids,            \* listMessageIds: ids collected so far / messageIds
  messages,       \* getMessages: results so far / messages
  idx,            \* loop index i of the loop the run is in
  inflight,       \* ids of the requests of the current batch not yet settled
  allJobs,        \* candidates accumulated by the parsing phase
  cache,          \* the run's DedupCache: [urls, titleCompany]
  newJobsCount,   \* local counter of fetchEmails
  progress,       \* React state `progress`
  isFetching,     \* React state `isFetching`
  phaseLog,       \* history: phases written by setProgress in this run
  outcome,        \* history: how the run ended
  thrown,         \* history: what the try block threw
  failOp,         \* history: the operation that threw
  failPhase,      \* history: progress.phase when the try block threw
  lateStarts,     \* history: operations started while the signal was aborted
  archived,       \* history: id -> number of successful archiveMessage calls
  parserLog,      \* history: per parsed message, the parsers whose parse ran
  saveLog,        \* history: per addJobIfNotExists call, candidate and result
  storeAtStart,   \* history: the store when the run started
  snapshot,       \* history: existingJobs handed to DedupCache.fromJobs
  rerun,          \* history: this run lists the messages of the previous run,
                  \*          whose saving loop had processed every candidate
  staleStop,      \* history: the previous run's signal was aborted when this
                  \*          run started
  dFrom,          \* dispatch check: a From header
  dHtml,          \* dispatch check: whether the message has an HTML body
  dInvoked,       \* dispatch check: parsers whose parse was invoked
  cuUrl,          \* cleanUrl check: the argument
  cuOut,          \* cleanUrl check: results of applying cleanUrl once, twice
  liLinks,        \* linkedinParser check: the anchors selected from the body
  liOut,          \* linkedinParser check: <<>> or <<the records returned>>
  gpLinks,        \* genericParser check: the anchors of the body
  gpOut,          \* genericParser check: <<>> or <<the records returned>>
  itTitle,        \* inferType check: the title
  itOut,          \* inferType check: <<>> or <<the type returned>>
  gdLinks,        \* glassdoorParser check: the anchors selected from the body
  gdOut,          \* glassdoorParser check: <<>> or <<the records returned>>
  inLinks,        \* indeedParser check: the anchors selected from the body
  inOut,          \* indeedParser check: <<>> or <<the records returned>>
  tagText,        \* inferTags check: the text
  tagOut,         \* inferTags check: <<>> or <<the tags returned>>
  uiRead,         \* Dashboard state `jobs`: the read flag shown for each job
  dbRead,         \* Firestore: the read flag stored for each job
  toggles,        \* toggleRead calls suspended at their await
  toggleNo        \* number of toggleRead calls so far

runVars  == <<shouldArchive, inboxN, corrupt, pc, ids, messages, idx, inflight,
              allJobs, cache, newJobsCount>>
histVars == <<phaseLog, outcome, thrown, failOp, failPhase, lateStarts,
              archived, parserLog, saveLog, storeAtStart, snapshot, rerun,
              staleStop>>
sessVars == <<store, jobsCache, runNo, abortRef, aborted>>
uiVars   == <<progress, isFetching>>
tagVars  == <<tagText, tagOut>>
dashVars == <<uiRead, dbRead, toggles, toggleNo>>
moreVars == <<gdLinks, gdOut, inLinks, inOut, tagVars, dashVars>>
fnVars   == <<cuUrl, cuOut, liLinks, liOut, gpLinks, gpOut, itTitle, itOut, moreVars>>
dispVars == <<dFrom, dHtml, dInvoked, fnVars>>
vars     == <<sessVars, runVars, uiVars, histVars, dispVars>>

Null == "null"

\* jobsCache === null, and a loaded jobsCache
NoJobs == [loaded |-> FALSE, jobs |-> <<>>]
Loaded(jobs) == [loaded |-> TRUE, jobs |-> jobs]

----------------------------------------------------------------------------
(* Bounds of the model *)
MaxMsgs == 6        \* most messages a query matches
MaxRuns == 2        \* fetchEmails invocations per session
MaxFromLen == 4     \* longest From header, in tokens

(* Program constants *)
BATCH_SIZE == 5
MAX_URL_LENGTH == 1400

Min(a, b) == IF a < b THEN a ELSE b

RECURSIVE SeqToSet(_)
SeqToSet(s) == IF s = <<>> THEN {} ELSE {Head(s)} \cup SeqToSet(Tail(s))

----------------------------------------------------------------------------
(* jobService: URL truncation and the dedup cache *)

\* url.length
RECURSIVE StrLen(_)
StrLen(s) == IF s = <<>> THEN 0 ELSE Head(s).n + StrLen(Tail(s))

\* url.slice(0, n)
RECURSIVE Slice(_, _)
Slice(s, n) ==
  IF s = <<>> \/ n <= 0 THEN <<>>
  ELSE IF Head(s).n >= n THEN <<[c |-> Head(s).c, n |-> n]>>
  ELSE <<Head(s)>> \o Slice(Tail(s), n - Head(s).n)

truncateUrl(url) ==
  IF StrLen(url) > MAX_URL_LENGTH THEN Slice(url, MAX_URL_LENGTH) ELSE url

\* key of the titleCompany set: `${job.title}|${job.company}`
TitleCompanyKey(job) == <<job.title, "|", job.company>>

EmptyCache == [urls |-> {}, titleCompany |-> {}]

\* DedupCache.fromJobs: empty urls and jobs lacking title or company are skipped
RECURSIVE fromJobs(_)
fromJobs(jobs) ==
  IF jobs = <<>> THEN EmptyCache
  ELSE LET rest == fromJobs(Tail(jobs))
           job == Head(jobs)
       IN [urls |-> IF StrLen(job.url) > 0 THEN rest.urls \cup {job.url}
                    ELSE rest.urls,
           titleCompany |->
             IF job.title # "" /\ job.company # ""
             THEN rest.titleCompany \cup {TitleCompanyKey(job)}
             ELSE rest.titleCompany]

\* has() asking for both components to be known
CacheHas_BothKnown(c, job) ==
  /\ truncateUrl(job.url) \in c.urls
  /\ TitleCompanyKey(job) \in c.titleCompany

CacheHas(c, job) ==
  \/ truncateUrl(job.url) \in c.urls
  \/ TitleCompanyKey(job) \in c.titleCompany

CacheAdd(c, job) ==
  [urls |-> c.urls \cup {truncateUrl(job.url)},
   titleCompany |-> c.titleCompany \cup {TitleCompanyKey(job)}]

\* addJobIfNotExists: const safeJob = { ...jobData, url: truncateUrl(jobData.url) }
SafeJob(jobData) == [jobData EXCEPT !.url = truncateUrl(jobData.url)]

\* getAllJobs keeping the stored url as it is
JobOfDoc_RawUrl(d) == [title |-> d.title, company |-> d.company, url |-> d.url]

\* getAllJobs: the Job built from one Firestore document
JobOfDoc(d) == [title |-> d.title, company |-> d.company, url |-> truncateUrl(d.url)]

RECURSIVE MapDocs(_)
MapDocs(docs) ==
  IF docs = <<>> THEN <<>> ELSE <<JobOfDoc(Head(docs))>> \o MapDocs(Tail(docs))

----------------------------------------------------------------------------
(* gmailService.getSenderEmail and parserRegistry.parseEmail *)

\* String.prototype.toLowerCase on one token
LowerTok(t) ==
  CASE t = "LinkedIn.com"  -> "linkedin.com"
    [] t = "Indeed.com"    -> "indeed.com"
    [] t = "Glassdoor.com" -> "glassdoor.com"
    [] t = "Jobs"          -> "jobs"
    [] t = "Game"          -> "game"
    [] t = "UI"            -> "ui"
    [] t = "React"         -> "react"
    [] t = "Remote"        -> "remote"
    [] t = "Senior"        -> "senior"
    [] OTHER               -> t

toLowerCase(s) == [k \in 1..Len(s) |-> LowerTok(s[k])]

\* String.prototype.includes for a domain name (domain names are single tokens)
Includes(s, sub) == \E k \in 1..Len(s) : s[k] = sub

\* from.match(/<(.+?)>/): the leftmost "<" that is followed, after at least one
\* token, by a ">"; the capture runs lazily to the first such ">".
MatchStarts(s) ==
  {p \in 1..Len(s) : s[p] = "<" /\ \E q \in (p + 2)..Len(s) : s[q] = ">"}

\* match[1], for a header on which the pattern matches
BracketMatch(s) ==
  LET p == CHOOSE x \in MatchStarts(s) : \A y \in MatchStarts(s) : x <= y
      qs == {q \in (p + 2)..Len(s) : s[q] = ">"}
      q == CHOOSE x \in qs : \A y \in qs : x <= y
  IN SubSeq(s, p + 1, q - 1)

\* getSenderEmail without the bracket match
getSenderEmail_WholeHeader(from) == toLowerCase(from)

\* getHeader(message, 'From') ?? '' is the header's token sequence (<<>> if absent)
getSenderEmail(from) ==
  IF MatchStarts(from) # {} THEN toLowerCase(BracketMatch(from))
  ELSE toLowerCase(from)

parsers == <<"linkedin", "indeed", "glassdoor", "generic">>

\* parseEmail has not been applied yet
Pending == <<"pending">>

canParse(parser, senderEmail) ==
  CASE parser = "linkedin"  -> Includes(senderEmail, "linkedin.com")
    [] parser = "indeed"    -> Includes(senderEmail, "indeed.com")
    [] parser = "glassdoor" -> Includes(senderEmail, "glassdoor.com")
    [] OTHER                -> TRUE

\* the for loop of parseEmail from index k on: the parsers whose parse is called
RECURSIVE ParseLoop(_, _)
ParseLoop(k, senderEmail) ==
  IF k > Len(parsers) THEN <<"generic">>
  ELSE IF parsers[k] = "generic" THEN ParseLoop(k + 1, senderEmail)
  ELSE IF canParse(parsers[k], senderEmail) THEN <<parsers[k]>>
  ELSE ParseLoop(k + 1, senderEmail)

\* parseEmail: the parsers whose parse is invoked (none without an HTML body)
ParsersInvoked(from, hasHtml) ==
  IF ~hasHtml THEN <<>> ELSE ParseLoop(1, getSenderEmail(from))

\* parser.parse(htmlBody, message) seen from the orchestrator: every job card of
\* the body becomes one record tagged with the parser's source; the generic
\* parser fixes company to 'Unknown'.
SourceOf(parser) == IF parser = "generic" THEN "email" ELSE parser

ParseCards(parser, cards) ==
  [k \in 1..Len(cards) |->
     [title   |-> cards[k].title,
      company |-> IF parser = "generic" THEN "Unknown" ELSE cards[k].company,
      url     |-> cards[k].url,
      source  |-> SourceOf(parser)]]

RECURSIVE ParseAll(_, _)
ParseAll(invoked, cards) ==
  IF invoked = <<>> THEN <<>>
  ELSE ParseCards(Head(invoked), cards) \o ParseAll(Tail(invoked), cards)

parseEmail(message) ==
  ParseAll(ParsersInvoked(message.from, message.hasHtml), message.cards)

\* getMessageDate: Date header, else internalDate, else now; new Date(x).toISOString()
\* throws a RangeError when the Date header is not a date.
Throws == <<"throws">>

getMessageDate(message) ==
  IF message.date # Null
  THEN (IF message.date = "invalid" THEN Throws ELSE <<"header", message.date>>)
  ELSE IF message.internalDate # Null THEN <<"internal", message.internalDate>>
  ELSE <<"now">>

----------------------------------------------------------------------------
(* The mailbox and the store the runs work on *)

\* the string of n times character ch
Rep(ch, n) == <<[c |-> ch, n |-> n]>>

\* Pad fills a URL up to just below the limit
Pad == Rep("x", MAX_URL_LENGTH - 1)
UrlA == Rep("u", 1) \o Rep("a", 1)
UrlD == Rep("u", 1) \o Rep("d", 1)
UrlE == Rep("u", 1) \o Rep("e", 1)
UrlF == Rep("u", 1) \o Rep("f", 1)
UrlLongA == Pad \o Rep("k", 1) \o Rep("a", 1)  \* 1401 characters
UrlLongB == Pad \o Rep("k", 1) \o Rep("b", 1)  \* 1401, equal to UrlLongA up to 1400
UrlExact == Pad \o Rep("m", 1)                 \* exactly 1400 characters

Card(t, c, u) == [title |-> t, company |-> c, url |-> u]

\* the i-th message matching the query (ids are 1, 2, ...)
MsgKind(i) == ((i - 1) % 7) + 1

BaseMsg(i) ==
  LET k == MsgKind(i) IN
  [id |-> i,
   from |->
     CASE k = 1 -> <<"Jobs", "<", "jobs@", "LinkedIn.com", ">">>
       [] k = 2 -> <<"jobs@", "indeed.com">>
       [] k = 3 -> <<"jobs@", "glassdoor.com">>
       [] k = 4 -> <<"<", "jobs@", "Indeed.com", "linkedin.com", ">">>
       [] k = 5 -> <<"Jobs", "jobs@">>
       [] k = 6 -> <<"linkedin.com", "<", "jobs@", "Glassdoor.com", ">">>
       [] OTHER -> <<"<", ">", "glassdoor.com">>,
   hasHtml |-> (k # 3),
   date |-> IF k \in {3, 5} THEN Null ELSE "valid",
   internalDate |-> IF k = 3 THEN Null ELSE "1700000000000",
   cards |->
     CASE k = 1 -> <<Card("React Developer", "Acme", UrlA),
                     Card("Data Clerk", "Beta", UrlLongA)>>
       [] k = 2 -> <<Card("QA Tester", "Cora", UrlLongB),
                     Card("Designer", "Dune", UrlE)>>
       [] k = 3 -> <<Card("Hidden", "Nobody", UrlD)>>
       [] k = 4 -> <<Card("React Developer", "Acme", UrlD),
                     Card("react developer", "ACME", UrlF)>>
       [] k = 5 -> <<>>
       [] k = 6 -> <<Card("Game Artist", "Echo", UrlExact)>>
       [] OTHER -> <<Card("React Developer", "Acme", UrlA)>>]

\* users.messages.get for id i in the current run
Msg(i, n, bad) ==
  IF bad /\ i = n THEN [BaseMsg(i) EXCEPT !.date = "invalid"] ELSE BaseMsg(i)

\* a Firestore document of collection "jobs"; run = 0 marks a pre-existing one
Doc(job, r) ==
  [title |-> job.title, company |-> job.company, url |-> job.url, run |-> r]

\* the collection before the session: empty, or holding a job of the mailbox and
\* a job whose stored url exceeds MAX_URL_LENGTH
InitialStores ==
  { <<>>,
    <<Doc(Card("React Developer", "Acme", UrlA), 0),
      Doc(Card("Archivist", "Oldco", UrlLongB), 0)>> }

\* values a rejected external call can reject with (err instanceof Error or not)
Errs == { [isError |-> TRUE, message |-> "network"],
          [isError |-> FALSE, message |-> Null] }
RangeError == [isError |-> TRUE, message |-> "Invalid time value"]
StoppedError == [isError |-> TRUE, message |-> "Stopped"]

----------------------------------------------------------------------------
(* useFetchEmails: progress reports *)

initialProgress ==
  [phase |-> "done", current |-> 0, total |-> 0, message |-> <<"">>,
   newJobsCount |-> 0]

ListingReport ==
  [phase |-> "listing", current |-> 0, total |-> 0, message |-> <<"Searching">>,
   newJobsCount |-> 0]

NoEmailsReport ==
  [phase |-> "done", current |-> 0, total |-> 0, message |-> <<"No emails found">>,
   newJobsCount |-> 0]

FetchingReport(total) ==
  [phase |-> "fetching", current |-> 0, total |-> total,
   message |-> <<"Fetching", total>>, newJobsCount |-> 0]

FetchedReport(prev, fetched, total) ==
  [prev EXCEPT !.current = fetched, !.total = total,
               !.message = <<"Fetching", fetched, total>>]

ParsingReport(total) ==
  [phase |-> "parsing", current |-> 0, total |-> total, message |-> <<"Parsing">>,
   newJobsCount |-> 0]

ParsedReport(prev, done, total, found) ==
  [prev EXCEPT !.current = done, !.message = <<"Parsed", done, total, found>>]

\* the Saving report with the phase of the report above it
SavingReport_StalePhase(total) ==
  [phase |-> "parsing", current |-> 0, total |-> total,
   message |-> <<"Loading dedup cache">>, newJobsCount |-> 0]

SavingReport(total) ==
  [phase |-> "saving", current |-> 0, total |-> total,
   message |-> <<"Loading dedup cache">>, newJobsCount |-> 0]

SavingStartReport(prev, total) == [prev EXCEPT !.message = <<"Saving", total>>]

\* the Saving update leaving the count of new jobs as it was
SavedReport_KeepCount(prev, done, total, n) ==
  [prev EXCEPT !.current = done, !.message = <<"Saving", done, total, n>>]

SavedReport(prev, done, total, n) ==
  [prev EXCEPT !.current = done, !.newJobsCount = n,
               !.message = <<"Saving", done, total, n>>]

ArchivingReport(total, n) ==
  [phase |-> "archiving", current |-> 0, total |-> total,
   message |-> <<"Archiving", total>>, newJobsCount |-> n]

ArchivedReport(prev, done, total) ==
  [prev EXCEPT !.current = done, !.message = <<"Archiving", done, total>>]

\* the Done report counting the new jobs where it should count the candidates
DoneReport_NewAsTotal(found, n, arch, listed) ==
  [phase |-> "done", current |-> n, total |-> n,
   message |-> IF arch THEN <<"Done", n, "archived", listed>> ELSE <<"Done", n>>,
   newJobsCount |-> n]

\* `Done! ${newJobsCount} new jobs added${archiveMsg}.`
DoneReport(found, n, arch, listed) ==
  [phase |-> "done", current |-> found, total |-> found,
   message |-> IF arch THEN <<"Done", n, "archived", listed>> ELSE <<"Done", n>>,
   newJobsCount |-> n]

\* `Stopped. ${newJobsCount} jobs saved before stopping.`
StoppedReport(prev, n) ==
  [prev EXCEPT !.phase = "done", !.message = <<"Stopped", n>>]

\* the Error report dropping the count, as it drops current and total
ErrorReport_NoCount(err, n) ==
  [phase |-> "error", current |-> 0, total |-> 0,
   message |-> <<"Error", IF err.isError THEN err.message ELSE "Unknown error">>,
   newJobsCount |-> 0]

\* `Error: ${err instanceof Error ? err.message : 'Unknown error'}`
ErrorReport(err, n) ==
  [phase |-> "error", current |-> 0, total |-> 0,
   message |-> <<"Error", IF err.isError THEN err.message ELSE "Unknown error">>,
   newJobsCount |-> n]

----------------------------------------------------------------------------
(* useFetchEmails.fetchEmails with the gmailService and jobService calls it     *)
(* awaits.  pc names the await the run is suspended at; "parse" and "saveLoop"  *)
(* are positions inside synchronous code, where no event handler can run.       *)

inputVars == <<shouldArchive, inboxN, corrupt>>

\* signal.aborted of the current run: runs do not overlap, so the signal of the
\* run in progress is the one of abortRef.current
Aborted == aborted

\* signal.aborted read between phases only, not inside the loops
SignalAborted_BetweenPhases(site) ==
  /\ site \notin {"listLoop", "getLoop", "parseLoop", "saveLoop", "archiveLoop"}
  /\ Aborted

\* the value of signal.aborted read at check point `site`
SignalAborted(site) == Aborted

\* messageIds.slice(i, i + BATCH_SIZE)
Batch(i) == SubSeq(ids, i + 1, Min(i + BATCH_SIZE, Len(ids)))

\* an external operation is issued now
Started == lateStarts' = lateStarts + (IF Aborted THEN 1 ELSE 0)

\* a catch block that tells a stop from a failure by the error's message
Catch_ByMessage(kind, op, err, prog, n, log) ==
  /\ thrown' = kind
  /\ failOp' = op
  /\ failPhase' = prog.phase
  /\ progress' = IF kind = "Stopped" THEN StoppedReport(prog, n)
                 ELSE ErrorReport(err, n)
  /\ outcome' = IF kind = "Stopped" THEN "cancelled" ELSE "error"
  /\ phaseLog' = Append(log, progress'.phase)
  /\ isFetching' = FALSE
  /\ pc' = "idle"

\* a catch block with no finally clause after it
Catch_NoFinally(kind, op, err, prog, n, log) ==
  /\ thrown' = kind
  /\ failOp' = op
  /\ failPhase' = prog.phase
  /\ progress' = IF SignalAborted("catch") THEN StoppedReport(prog, n)
                 ELSE ErrorReport(err, n)
  /\ outcome' = IF SignalAborted("catch") THEN "cancelled" ELSE "error"
  /\ phaseLog' = Append(log, progress'.phase)
  /\ isFetching' = isFetching
  /\ pc' = "idle"

\* catch (err) { ... } finally { setIsFetching(false) }
Catch(kind, op, err, prog, n, log) ==
  /\ thrown' = kind
  /\ failOp' = op
  /\ failPhase' = prog.phase
  /\ progress' = IF SignalAborted("catch") THEN StoppedReport(prog, n)
                 ELSE ErrorReport(err, n)
  /\ outcome' = IF SignalAborted("catch") THEN "cancelled" ELSE "error"
  /\ phaseLog' = Append(log, progress'.phase)
  /\ isFetching' = FALSE
  /\ pc' = "idle"

ThrowStopped(site, prog, n, log) == Catch("Stopped", site, StoppedError, prog, n, log)

\* the run goes on to its next await
Go(to, prog, log) ==
  /\ pc' = to
  /\ progress' = prog
  /\ phaseLog' = log
  /\ UNCHANGED <<outcome, thrown, failOp, failPhase, isFetching>>

\* the end of the try block: invalidateJobsCache if anything was added, Done report
Finish(log) ==
  /\ jobsCache' = IF newJobsCount > 0 THEN NoJobs ELSE jobsCache
  /\ progress' = DoneReport(Len(allJobs), newJobsCount, shouldArchive, Len(ids))
  /\ phaseLog' = Append(log, "done")
  /\ outcome' = "success"
  /\ isFetching' = FALSE
  /\ pc' = "idle"
  /\ UNCHANGED <<thrown, failOp, failPhase>>

\* getMessages requesting every remaining id at once
IssueGet_Unbatched(i, prog, log) ==
  /\ idx' = i
  /\ IF SignalAborted("getLoop")
     THEN /\ ThrowStopped("getLoop", prog, newJobsCount, log)
          /\ UNCHANGED <<inflight, lateStarts>>
     ELSE /\ Go("get", prog, log)
          /\ inflight' = SeqToSet(SubSeq(ids', i + 1, Len(ids')))
          /\ Started

\* top of the getMessages loop at index i
IssueGet(i, prog, log) ==
  /\ idx' = i
  /\ IF SignalAborted("getLoop")
     THEN /\ ThrowStopped("getLoop", prog, newJobsCount, log)
          /\ UNCHANGED <<inflight, lateStarts>>
     ELSE /\ Go("get", prog, log)
          /\ inflight' = SeqToSet(SubSeq(ids', i + 1, Min(i + BATCH_SIZE, Len(ids'))))
          /\ Started

\* archiveMessages issuing every remaining id at once
IssueArchive_Unbatched(i, prog, log) ==
  /\ idx' = i
  /\ IF SignalAborted("archiveLoop")
     THEN /\ ThrowStopped("archiveLoop", prog, newJobsCount, log)
          /\ UNCHANGED <<inflight, lateStarts>>
     ELSE /\ Go("archive", prog, log)
          /\ inflight' = SeqToSet(SubSeq(ids, i + 1, Len(ids)))
          /\ Started

\* top of the archiveMessages loop at index i
IssueArchive(i, prog, log) ==
  /\ idx' = i
  /\ IF SignalAborted("archiveLoop")
     THEN /\ ThrowStopped("archiveLoop", prog, newJobsCount, log)
          /\ UNCHANGED <<inflight, lateStarts>>
     ELSE /\ Go("archive", prog, log)
          /\ inflight' = SeqToSet(Batch(i))
          /\ Started

\* the saving loop of the run that just ended ran over every candidate
SavingCompleted ==
  \/ outcome = "success" /\ Len(ids) >= 1
  \/ failOp \in {"beforeArchive", "archiveLoop", "archive"}

\* a fetchEmails that keeps the cancellation signal of the previous run
StartRun_SharedSignal(arch, n, bad) ==
  /\ pc = "idle"
  /\ runNo < MaxRuns
  /\ bad => (n >= 1 /\ ~arch)
  /\ runNo' = runNo + 1
  /\ abortRef' = runNo + 1
  /\ aborted' = aborted
  /\ UNCHANGED <<store, jobsCache>>
  /\ shouldArchive' = arch
  /\ inboxN' = n
  /\ corrupt' = bad
  /\ ids' = <<>>
  /\ messages' = <<>>
  /\ idx' = 0
  /\ inflight' = {}
  /\ allJobs' = <<>>
  /\ cache' = EmptyCache
  /\ newJobsCount' = 0
  /\ isFetching' = TRUE
  /\ progress' = ListingReport
  /\ phaseLog' = <<"listing">>
  /\ outcome' = "none"
  /\ thrown' = "none"
  /\ failOp' = "none"
  /\ failPhase' = "none"
  /\ lateStarts' = 0
  /\ archived' = [i \in 1..MaxMsgs |-> 0]
  /\ parserLog' = <<>>
  /\ saveLog' = <<>>
  /\ storeAtStart' = store
  /\ snapshot' = NoJobs
  /\ rerun' = (SavingCompleted /\ n = inboxN /\ bad = corrupt)
  /\ staleStop' = aborted
  /\ pc' = "list"
  /\ UNCHANGED dispVars

\* fetchEmails(options) up to the first users.messages.list request
StartRun(arch, n, bad) ==
  /\ pc = "idle"
  /\ runNo < MaxRuns
  /\ bad => (n >= 1 /\ ~arch)
  /\ runNo' = runNo + 1
  /\ abortRef' = runNo + 1
  /\ aborted' = FALSE
  /\ UNCHANGED <<store, jobsCache>>
  /\ shouldArchive' = arch
  /\ inboxN' = n
  /\ corrupt' = bad
  /\ ids' = <<>>
  /\ messages' = <<>>
  /\ idx' = 0
  /\ inflight' = {}
  /\ allJobs' = <<>>
  /\ cache' = EmptyCache
  /\ newJobsCount' = 0
  /\ isFetching' = TRUE
  /\ progress' = ListingReport
  /\ phaseLog' = <<"listing">>
  /\ outcome' = "none"
  /\ thrown' = "none"
  /\ failOp' = "none"
  /\ failPhase' = "none"
  /\ lateStarts' = 0
  /\ archived' = [i \in 1..MaxMsgs |-> 0]
  /\ parserLog' = <<>>
  /\ saveLog' = <<>>
  /\ storeAtStart' = store
  /\ snapshot' = NoJobs
  /\ rerun' = (SavingCompleted /\ n = inboxN /\ bad = corrupt)
  /\ staleStop' = aborted
  /\ pc' = "list"
  /\ UNCHANGED dispVars

\* stopFetching: abortRef.current?.abort()
Stop ==
  /\ abortRef # 0
  /\ ~aborted
  /\ pc \notin {"parse", "saveLoop"}
  /\ aborted' = TRUE
  /\ UNCHANGED <<store, jobsCache, runNo, abortRef, runVars, uiVars, histVars, dispVars>>

\* a users.messages.list response carrying k more ids
ListPageOk(k) ==
  /\ pc = "list"
  /\ k \in 0..(inboxN - Len(ids))
  /\ k = 0 => inboxN = Len(ids)
  /\ ids' = ids \o [j \in 1..k |-> Len(ids) + j]
  /\ UNCHANGED <<store, runNo, abortRef, aborted, inputVars, messages, allJobs,
                 cache, newJobsCount, archived, parserLog, saveLog, storeAtStart,
                 snapshot, rerun, staleStop, dispVars>>
  /\ IF Len(ids') < inboxN
     THEN \* nextPageToken present: next iteration of the do-while loop
          /\ UNCHANGED <<jobsCache, idx, inflight>>
          /\ IF SignalAborted("listLoop")
             THEN /\ ThrowStopped("listLoop", progress, newJobsCount, phaseLog)
                  /\ UNCHANGED lateStarts
             ELSE /\ Go("list", progress, phaseLog)
                  /\ Started
     ELSE IF SignalAborted("afterList")
     THEN /\ ThrowStopped("afterList", progress, newJobsCount, phaseLog)
          /\ UNCHANGED <<jobsCache, idx, inflight, lateStarts>>
     ELSE IF Len(ids') = 0
     THEN /\ progress' = NoEmailsReport
          /\ phaseLog' = Append(phaseLog, "done")
          /\ outcome' = "success"
          /\ isFetching' = FALSE
          /\ pc' = "idle"
          /\ UNCHANGED <<thrown, failOp, failPhase, jobsCache, idx, inflight, lateStarts>>
     ELSE /\ IssueGet(0, FetchingReport(Len(ids')), Append(phaseLog, "fetching"))
          /\ UNCHANGED jobsCache

\* a users.messages.list request is rejected
ListFail(e) ==
  /\ pc = "list"
  /\ Catch("failure", "list", e, progress, newJobsCount, phaseLog)
  /\ UNCHANGED <<sessVars, inputVars, ids, messages, idx, inflight, allJobs, cache,
                 newJobsCount, lateStarts, archived, parserLog, saveLog,
                 storeAtStart, snapshot, rerun, staleStop, dispVars>>

\* getMessage(id) of the batch in flight resolves
GetOk(id) ==
  /\ pc = "get"
  /\ id \in inflight
  /\ UNCHANGED <<sessVars, inputVars, ids, allJobs, cache, newJobsCount, archived,
                 parserLog, saveLog, storeAtStart, snapshot, rerun, staleStop, dispVars, lateStarts>>
  /\ inflight' = inflight \ {id}
  /\ IF inflight' # {}
     THEN UNCHANGED <<messages, idx, uiVars, pc, phaseLog, outcome, thrown, failOp,
                      failPhase>>
     ELSE LET res  == messages \o Batch(idx)
              prog == FetchedReport(progress, Len(res), Len(ids))
          IN /\ messages' = res
             /\ IF idx + BATCH_SIZE < Len(ids)
                THEN /\ Go("getSleep", prog, phaseLog)
                     /\ idx' = idx
                ELSE IF SignalAborted("afterGet")
                THEN /\ ThrowStopped("afterGet", prog, newJobsCount, phaseLog)
                     /\ idx' = idx
                ELSE /\ Go("parse", ParsingReport(Len(res)), Append(phaseLog, "parsing"))
                     /\ idx' = 0

\* a getMessage of the batch in flight is rejected: Promise.all rejects
GetFail(e) ==
  /\ pc = "get"
  /\ inflight # {}
  /\ inflight' = {}
  /\ Catch("failure", "get", e, progress, newJobsCount, phaseLog)
  /\ UNCHANGED <<sessVars, inputVars, ids, messages, idx, allJobs, cache,
                 newJobsCount, lateStarts, archived, parserLog, saveLog,
                 storeAtStart, snapshot, rerun, staleStop, dispVars>>

\* sleep(BATCH_DELAY) inside getMessages elapses
GetSleepDone ==
  /\ pc = "getSleep"
  /\ UNCHANGED <<sessVars, inputVars, ids, messages, allJobs, cache, newJobsCount,
                 archived, parserLog, saveLog, storeAtStart, snapshot, rerun, staleStop, dispVars>>
  /\ IssueGet(idx + BATCH_SIZE, progress, phaseLog)

\* allJobs.push({ ...pj, emailId: message.id, dateReceived }) for every pj
Candidates(parsed, id, date) ==
  [k \in 1..Len(parsed) |->
     [title |-> parsed[k].title, company |-> parsed[k].company,
      url |-> parsed[k].url, source |-> parsed[k].source,
      emailId |-> id, dateReceived |-> date]]

\* one iteration of the parsing loop; the message, its date and its records are
\* each computed once and bound (m, d, parsed)
ParseStep ==
  /\ pc = "parse"
  /\ idx < Len(messages)
  /\ UNCHANGED <<sessVars, inputVars, ids, messages, inflight, cache, newJobsCount,
                 archived, saveLog, storeAtStart, snapshot, rerun, staleStop, dispVars>>
  /\ IF SignalAborted("parseLoop")
     THEN /\ ThrowStopped("parseLoop", progress, newJobsCount, phaseLog)
          /\ UNCHANGED <<idx, allJobs, parserLog, lateStarts>>
     ELSE \E m \in {Msg(messages[idx + 1], inboxN, corrupt)} :
          \E d \in {getMessageDate(m)}, parsed \in {parseEmail(m)} :
             /\ parserLog' = Append(parserLog, ParsersInvoked(m.from, m.hasHtml))
             /\ Started
             /\ IF d = Throws
                THEN /\ Catch("failure", "parse", RangeError, progress, newJobsCount,
                              phaseLog)
                     /\ UNCHANGED <<idx, allJobs>>
                ELSE /\ allJobs' = allJobs \o Candidates(parsed, m.id, d)
                     /\ idx' = idx + 1
                     /\ Go("parse",
                           ParsedReport(progress, idx + 1, Len(messages), Len(allJobs')),
                           phaseLog)

\* const cache = DedupCache.fromJobs(existingJobs) and what follows up to the loop
AfterSnapshot(existing, prog, log) ==
  /\ snapshot' = Loaded(existing)
  /\ cache' = fromJobs(existing)
  /\ IF SignalAborted("afterSnapshot")
     THEN ThrowStopped("afterSnapshot", prog, newJobsCount, log)
     ELSE Go("saveLoop", SavingStartReport(prog, Len(allJobs)), log)

\* the parsing loop is over: Saving report, getAllJobs()
ParseDone ==
  /\ pc = "parse"
  /\ idx = Len(messages)
  /\ idx' = 0
  /\ UNCHANGED <<sessVars, inputVars, ids, messages, inflight, allJobs, newJobsCount,
                 archived, parserLog, saveLog, storeAtStart, rerun, staleStop, dispVars>>
  /\ IF jobsCache.loaded
     THEN /\ AfterSnapshot(jobsCache.jobs, SavingReport(Len(allJobs)),
                           Append(phaseLog, "saving"))
          /\ UNCHANGED lateStarts
     ELSE /\ Go("snapshot", SavingReport(Len(allJobs)), Append(phaseLog, "saving"))
          /\ Started
          /\ UNCHANGED <<snapshot, cache>>

\* getDocs resolves inside getAllJobs: the jobs are mapped and cached
SnapshotOk ==
  /\ pc = "snapshot"
  /\ jobsCache' = Loaded(MapDocs(store))
  /\ AfterSnapshot(jobsCache'.jobs, progress, phaseLog)
  /\ UNCHANGED <<store, runNo, abortRef, aborted, inputVars, ids, messages, idx,
                 inflight, allJobs, newJobsCount, lateStarts, archived, parserLog,
                 saveLog, storeAtStart, rerun, staleStop, dispVars>>

\* getDocs is rejected
SnapshotFail(e) ==
  /\ pc = "snapshot"
  /\ Catch("failure", "snapshot", e, progress, newJobsCount, phaseLog)
  /\ UNCHANGED <<sessVars, inputVars, ids, messages, idx, inflight, allJobs, cache,
                 newJobsCount, lateStarts, archived, parserLog, saveLog,
                 storeAtStart, snapshot, rerun, staleStop, dispVars>>

\* counting every candidate gone through
CountAfter_Every(n, result) == n + 1

\* if (result) newJobsCount++
CountAfter(n, result) == IF result # Null THEN n + 1 ELSE n

\* one iteration of the saving loop up to the await of addDoc (if any)
SaveStep ==
  /\ pc = "saveLoop"
  /\ idx < Len(allJobs)
  /\ UNCHANGED <<sessVars, inputVars, ids, messages, inflight, allJobs, cache,
                 archived, parserLog, storeAtStart, snapshot, rerun, staleStop, dispVars>>
  /\ IF SignalAborted("saveLoop")
     THEN /\ ThrowStopped("saveLoop", progress, newJobsCount, phaseLog)
          /\ UNCHANGED <<idx, newJobsCount, saveLog, lateStarts>>
     ELSE IF CacheHas(cache, SafeJob(allJobs[idx + 1]))
     THEN \* addJobIfNotExists returns null
          /\ newJobsCount' = CountAfter(newJobsCount, Null)
          /\ saveLog' = Append(saveLog, [job |-> allJobs[idx + 1], result |-> "known"])
          /\ idx' = idx + 1
          /\ Go("saveLoop",
                SavedReport(progress, idx + 1, Len(allJobs), newJobsCount'), phaseLog)
          /\ UNCHANGED lateStarts
     ELSE \* addJob(safeJob) is awaited
          /\ Go("persist", progress, phaseLog)
          /\ Started
          /\ UNCHANGED <<idx, newJobsCount, saveLog>>

\* addDoc resolves: cache.add(safeJob), the id is returned
PersistOk ==
  /\ pc = "persist"
  /\ store' = Append(store, Doc(SafeJob(allJobs[idx + 1]), runNo))
  /\ cache' = CacheAdd(cache, SafeJob(allJobs[idx + 1]))
  /\ newJobsCount' = CountAfter(newJobsCount, "id")
  /\ saveLog' = Append(saveLog, [job |-> allJobs[idx + 1], result |-> "persisted"])
  /\ idx' = idx + 1
  /\ Go("saveLoop", SavedReport(progress, idx + 1, Len(allJobs), newJobsCount'),
        phaseLog)
  /\ UNCHANGED <<jobsCache, runNo, abortRef, aborted, inputVars, ids, messages,
                 inflight, allJobs, lateStarts, archived, parserLog, storeAtStart,
                 snapshot, rerun, staleStop, dispVars>>

\* the saving loop swallowing the rejection and going on to the next candidate
PersistFail_Skipped(e) ==
  /\ pc = "persist"
  /\ saveLog' = Append(saveLog, [job |-> allJobs[idx + 1], result |-> "failed"])
  /\ idx' = idx + 1
  /\ Go("saveLoop", SavedReport(progress, idx + 1, Len(allJobs), newJobsCount),
        phaseLog)
  /\ UNCHANGED <<sessVars, inputVars, ids, messages, inflight, allJobs, cache,
                 newJobsCount, lateStarts, archived, parserLog, storeAtStart,
                 snapshot, rerun, staleStop, dispVars>>

\* addJobIfNotExists adding the keys before it awaits addJob
PersistFail_AddFirst(e) ==
  /\ pc = "persist"
  /\ cache' = CacheAdd(cache, SafeJob(allJobs[idx + 1]))
  /\ saveLog' = Append(saveLog, [job |-> allJobs[idx + 1], result |-> "failed"])
  /\ Catch("failure", "persist", e, progress, newJobsCount, phaseLog)
  /\ UNCHANGED <<sessVars, inputVars, ids, messages, idx, inflight, allJobs,
                 newJobsCount, lateStarts, archived, parserLog, storeAtStart,
                 snapshot, rerun, staleStop, dispVars>>

\* addDoc is rejected: addJobIfNotExists rejects inside the try block
PersistFail(e) ==
  /\ pc = "persist"
  /\ saveLog' = Append(saveLog, [job |-> allJobs[idx + 1], result |-> "failed"])
  /\ Catch("failure", "persist", e, progress, newJobsCount, phaseLog)
  /\ UNCHANGED <<sessVars, inputVars, ids, messages, idx, inflight, allJobs, cache,
                 newJobsCount, lateStarts, archived, parserLog, storeAtStart,
                 snapshot, rerun, staleStop, dispVars>>

\* the saving loop is over: archive if requested, else finish
SaveDone ==
  /\ pc = "saveLoop"
  /\ idx = Len(allJobs)
  /\ UNCHANGED <<store, runNo, abortRef, aborted, inputVars, ids, messages,
                 allJobs, cache, newJobsCount, archived, parserLog, saveLog,
                 storeAtStart, snapshot, rerun, staleStop, dispVars>>
  /\ IF ~shouldArchive
     THEN /\ Finish(phaseLog)
          /\ UNCHANGED <<idx, inflight, lateStarts>>
     ELSE IF SignalAborted("beforeArchive")
     THEN /\ ThrowStopped("beforeArchive", progress, newJobsCount, phaseLog)
          /\ UNCHANGED <<jobsCache, idx, inflight, lateStarts>>
     ELSE /\ IssueArchive(0, ArchivingReport(Len(ids), newJobsCount),
                          Append(phaseLog, "archiving"))
          /\ UNCHANGED jobsCache

\* archiveMessage(id) of the batch in flight resolves
ArchiveOk(id) ==
  /\ pc = "archive"
  /\ id \in inflight
  /\ UNCHANGED <<store, runNo, abortRef, aborted, inputVars, ids, messages, idx,
                 allJobs, cache, newJobsCount, parserLog, saveLog, storeAtStart,
                 snapshot, rerun, staleStop, dispVars, lateStarts>>
  /\ archived' = [archived EXCEPT ![id] = @ + 1]
  /\ inflight' = inflight \ {id}
  /\ IF inflight' # {}
     THEN UNCHANGED <<jobsCache, uiVars, pc, phaseLog, outcome, thrown, failOp,
                      failPhase>>
     ELSE LET prog == ArchivedReport(progress, Min(idx + BATCH_SIZE, Len(ids)),
                                     Len(ids))
          IN IF idx + BATCH_SIZE < Len(ids)
             THEN /\ Go("archSleep", prog, phaseLog)
                  /\ UNCHANGED jobsCache
             ELSE Finish(phaseLog)

\* archiveMessage(id) is rejected: Promise.all rejects; the requests of the batch
\* still in flight are not awaited, those in `late` succeed all the same
ArchiveFail(id, e, late) ==
  /\ pc = "archive"
  /\ id \in inflight
  /\ late \subseteq inflight \ {id}
  /\ archived' = [i \in DOMAIN archived |-> archived[i] + (IF i \in late THEN 1 ELSE 0)]
  /\ inflight' = {}
  /\ Catch("failure", "archive", e, progress, newJobsCount, phaseLog)
  /\ UNCHANGED <<sessVars, inputVars, ids, messages, idx, allJobs, cache,
                 newJobsCount, lateStarts, parserLog, saveLog, storeAtStart,
                 snapshot, rerun, staleStop, dispVars>>

\* sleep(BATCH_DELAY) inside archiveMessages elapses
ArchSleepDone ==
  /\ pc = "archSleep"
  /\ UNCHANGED <<sessVars, inputVars, ids, messages, allJobs, cache, newJobsCount,
                 archived, parserLog, saveLog, storeAtStart, snapshot, rerun, staleStop, dispVars>>
  /\ IssueArchive(idx + BATCH_SIZE, progress, phaseLog)

----------------------------------------------------------------------------
\* the hook before the first fetchEmails call
InitRun ==
  /\ runNo = 0
  /\ abortRef = 0
  /\ aborted = FALSE
  /\ shouldArchive = FALSE
  /\ inboxN = 0
  /\ corrupt = FALSE
  /\ pc = "idle"
  /\ ids = <<>>
  /\ messages = <<>>
  /\ idx = 0
  /\ inflight = {}
  /\ allJobs = <<>>
  /\ cache = EmptyCache
  /\ newJobsCount = 0
  /\ progress = initialProgress
  /\ isFetching = FALSE
  /\ phaseLog = <<>>
  /\ outcome = "none"
  /\ thrown = "none"
  /\ failOp = "none"
  /\ failPhase = "none"
  /\ lateStarts = 0
  /\ archived = [i \in 1..MaxMsgs |-> 0]
  /\ parserLog = <<>>
  /\ saveLog = <<>>
  /\ snapshot = NoJobs
  /\ rerun = FALSE
  /\ staleStop = FALSE

\* no call of cleanUrl is being followed
CleanUrlIdle ==
  /\ cuUrl = <<>>
  /\ cuOut = <<>>

\* no call of linkedinParser.parse is being followed
LinkedinIdle ==
  /\ liLinks = <<>>
  /\ liOut = <<>>

\* no call of genericParser.parse is being followed
GenericIdle ==
  /\ gpLinks = <<>>
  /\ gpOut = <<>>

\* no call of inferType is being followed
InferTypeIdle ==
  /\ itTitle = <<>>
  /\ itOut = <<>>

\* no call of glassdoorParser.parse is being followed
GlassdoorIdle ==
  /\ gdLinks = <<>>
  /\ gdOut = <<>>

\* no call of indeedParser.parse is being followed
IndeedIdle ==
  /\ inLinks = <<>>
  /\ inOut = <<>>

\* no call of inferTags is being followed
InferTagsIdle ==
  /\ tagText = <<>>
  /\ tagOut = <<>>

\* the Dashboard is not mounted
DashboardIdle ==
  /\ uiRead = <<>>
  /\ dbRead = <<>>
  /\ toggles = {}
  /\ toggleNo = 0

Init ==
  /\ InitRun
  /\ InferTagsIdle
  /\ DashboardIdle
  /\ GlassdoorIdle
  /\ IndeedIdle
  /\ CleanUrlIdle
  /\ LinkedinIdle
  /\ GenericIdle
  /\ InferTypeIdle
  /\ store \in InitialStores
  /\ jobsCache \in {NoJobs, Loaded(MapDocs(store))}
  /\ storeAtStart = store
  /\ dFrom = <<>>
  /\ dHtml = FALSE
  /\ dInvoked = Pending

Next ==
  \/ \E arch \in BOOLEAN, n \in 0..MaxMsgs, bad \in BOOLEAN : StartRun(arch, n, bad)
  \/ Stop
  \/ \E k \in 0..MaxMsgs : ListPageOk(k)
  \/ \E e \in Errs : ListFail(e)
  \/ \E id \in inflight : GetOk(id)
  \/ \E e \in Errs : GetFail(e)
  \/ GetSleepDone
  \/ ParseStep
  \/ ParseDone
  \/ SnapshotOk
  \/ \E e \in Errs : SnapshotFail(e)
  \/ SaveStep
  \/ PersistOk
  \/ \E e \in Errs : PersistFail(e)
  \/ SaveDone
  \/ \E id \in inflight : ArchiveOk(id)
  \/ \E id \in inflight, e \in Errs :
       \E late \in SUBSET (inflight \ {id}) : ArchiveFail(id, e, late)
  \/ ArchSleepDone

Spec == Init /\ [][Next]_vars

\* a step of the run in progress other than a stop request: a response or a
\* failure of the pending external call, a timer firing, or synchronous code
\* running on to the next await
RunStep == pc # "idle" /\ Next /\ ~Stop

\* every pending external call eventually returns or fails, and every timer fires
SpecLive == Init /\ [][Next]_vars /\ WF_vars(RunStep)

----------------------------------------------------------------------------
(* parseEmail on its own: every From header of up to MaxFromLen tokens *)

FromTokens == {"<", ">", "jobs@", "LinkedIn.com", "indeed.com", "Glassdoor.com"}

Headers == UNION {[1..l -> FromTokens] : l \in 0..MaxFromLen}

\* parseEmail(message) for the message drawn by InitDispatch
Dispatch ==
  /\ dInvoked = Pending
  /\ dInvoked' = ParsersInvoked(dFrom, dHtml)
  /\ UNCHANGED <<dFrom, dHtml, fnVars, sessVars, runVars, uiVars, histVars>>

InitDispatch ==
  /\ InitRun
  /\ InferTagsIdle
  /\ DashboardIdle
  /\ GlassdoorIdle
  /\ IndeedIdle
  /\ CleanUrlIdle
  /\ LinkedinIdle
  /\ GenericIdle
  /\ InferTypeIdle
  /\ store = <<>>
  /\ jobsCache = NoJobs
  /\ storeAtStart = <<>>
  /\ dFrom \in Headers
  /\ dHtml \in BOOLEAN
  /\ dInvoked = Pending

NextDispatch == Dispatch

SpecDispatch == InitDispatch /\ [][NextDispatch]_vars

----------------------------------------------------------------------------
(* parsers/utils.cleanUrl.  Here a URL is a sequence of atoms: the origin       *)
(* "http://h/", a path segment "view/", the delimiters "?", "#", "&", "=", the  *)
(* text "amp;" (so that "&" followed by "amp;" reads "&amp;"), and the          *)
(* parameters "x=1" and "utm_source=z".                                         *)

MaxUrlAtoms == 4     \* longest cleanUrl argument, in atoms

UrlAtoms == {"http://h/", "view/", "?", "#", "&", "amp;", "x=1", "utm_source=z"}

\* url.replace(/&amp;/g, '&'): every "&" "amp;" becomes "&", scanning left to right
RECURSIVE ReplaceAmp(_)
ReplaceAmp(u) ==
  IF u = <<>> THEN <<>>
  ELSE IF Len(u) >= 2 /\ u[1] = "&" /\ u[2] = "amp;"
       THEN <<"&">> \o ReplaceAmp(SubSeq(u, 3, Len(u)))
       ELSE <<Head(u)>> \o ReplaceAmp(Tail(u))

\* new URL(decoded) succeeds: the string starts with a scheme and an authority
Parses(u) == u # <<>> /\ u[1] = "http://h/"

\* index of the first atom a of u at or after k, Len(u) + 1 if there is none
RECURSIVE IndexFrom(_, _, _)
IndexFrom(u, a, k) ==
  IF k > Len(u) THEN Len(u) + 1
  ELSE IF u[k] \in a THEN k
  ELSE IndexFrom(u, a, k + 1)

\* the URL record of a string that parses: path, query (with hasQuery), fragment
ParseUrl(u) ==
  LET q == IndexFrom(u, {"?", "#"}, 2)
      h == IndexFrom(u, {"#"}, 2)
  IN [path |-> SubSeq(u, 2, q - 1),
      hasQuery |-> q < h,
      query |-> SubSeq(u, q + 1, h - 1),
      hasFragment |-> h <= Len(u),
      fragment |-> SubSeq(u, h + 1, Len(u))]

\* the application/x-www-form-urlencoded parser: the query split at "&", empty
\* pieces dropped
RECURSIVE SplitParams(_, _)
SplitParams(q, cur) ==
  IF q = <<>> THEN (IF cur = <<>> THEN <<>> ELSE <<cur>>)
  ELSE IF Head(q) = "&"
       THEN (IF cur = <<>> THEN <<>> ELSE <<cur>>) \o SplitParams(Tail(q), <<>>)
       ELSE SplitParams(Tail(q), Append(cur, Head(q)))

\* the name of the parameter is one of the five utm_ names deleted by cleanUrl
IsTracking(param) == param[1] = "utm_source=z"

\* searchParams.delete(...) for the five names
RECURSIVE DeleteTracking(_)
DeleteTracking(ps) ==
  IF ps = <<>> THEN <<>>
  ELSE IF IsTracking(Head(ps)) THEN DeleteTracking(Tail(ps))
  ELSE <<Head(ps)>> \o DeleteTracking(Tail(ps))

\* percent-decoding followed by the urlencoded serializer's percent-encoding
EncodeQ(a) ==
  CASE a = "amp;"      -> "amp%3B"
    [] a = "?"         -> "%3F"
    [] a = "view/"     -> "view%2F"
    [] a = "http://h/" -> "http%3A%2F%2Fh%2F"
    [] OTHER           -> a

HasEq(a) == a \in {"x=1", "utm_source=z", "="}

\* name=value of one parameter; a parameter without "=" has the empty value
SerializeParam(param) ==
  [k \in 1..Len(param) |-> EncodeQ(param[k])]
  \o (IF \E k \in 1..Len(param) : HasEq(param[k]) THEN <<>> ELSE <<"=">>)

RECURSIVE SerializeParams(_)
SerializeParams(ps) ==
  IF ps = <<>> THEN <<>>
  ELSE SerializeParam(Head(ps))
       \o (IF Tail(ps) = <<>> THEN <<>> ELSE <<"&">> \o SerializeParams(Tail(ps)))

\* urlObj.toString() after the deletes: the searchParams update steps rewrite
\* the query from the list, and drop it when the list is empty
UrlToString(r) ==
  LET ps == DeleteTracking(SplitParams(r.query, <<>>))
  IN <<"http://h/">> \o r.path
     \o (IF r.hasQuery /\ ps # <<>> THEN <<"?">> \o SerializeParams(ps) ELSE <<>>)
     \o (IF r.hasFragment THEN <<"#">> \o r.fragment ELSE <<>>)

cleanUrl(url) ==
  LET decoded == ReplaceAmp(url)
  IN IF Parses(decoded) THEN UrlToString(ParseUrl(decoded)) ELSE url

UrlInputs == UNION {[1..l -> UrlAtoms] : l \in 0..MaxUrlAtoms}

\* cleanUrl applied to the argument, then to its own result
CleanUrlStep ==
  /\ Len(cuOut) < 2
  /\ cuOut' = Append(cuOut, cleanUrl(IF cuOut = <<>> THEN cuUrl ELSE cuOut[1]))
  /\ UNCHANGED <<cuUrl, liLinks, liOut, gpLinks, gpOut, itTitle, itOut, moreVars, dFrom,
                 dHtml, dInvoked, sessVars, runVars, uiVars, histVars>>

InitCleanUrl ==
  /\ InitRun
  /\ InferTagsIdle
  /\ DashboardIdle
  /\ GlassdoorIdle
  /\ IndeedIdle
  /\ store = <<>>
  /\ jobsCache = NoJobs
  /\ storeAtStart = <<>>
  /\ dFrom = <<>>
  /\ dHtml = FALSE
  /\ dInvoked = Pending
  /\ cuUrl \in UrlInputs
  /\ cuOut = <<>>
  /\ LinkedinIdle
  /\ GenericIdle
  /\ InferTypeIdle

NextCleanUrl == CleanUrlStep

SpecCleanUrl == InitCleanUrl /\ [][NextCleanUrl]_vars

----------------------------------------------------------------------------
(* linkedinParser.parse on the anchors matched by                               *)
(* a[href*="linkedin.com/comm/jobs/view"].  In an href the atom "http://h/"     *)
(* stands for the origin, "view/" for "comm/jobs/view/", the next atom for what *)
(* follows it (digits or not), and the rest for the tracking suffix.            *)

MaxLinks == 3        \* most job anchors in one message body

Digits == {"1", "2"}

\* text.length of the texts that occur
TextLen(t) ==
  CASE t = ""                -> 0
    [] t = "QA"              -> 2
    [] t = "View"            -> 4
    [] t = "Click Here"      -> 10
    [] t = "Senior Widget Engineer" -> 22
    [] t = "Widget makers of every kind wanted ..." -> 201
    [] t = "Data Clerk"      -> 10
    [] t = "React Developer" -> 15
    [] t = " "               -> 1
    [] t = "Acme"            -> 4
    [] t = "$50K"            -> 4
    [] t = "4.2 *"           -> 5
    [] t = "Toronto, ON"     -> 11
    [] t = "Widget Engineer" -> 15
    [] t = "-"               -> 1
    [] t = "Q"               -> 1
    [] t = "Remote"          -> 6
    [] t = "3 days ago"      -> 10
    [] OTHER                 -> 12

\* href.match(/\/jobs\/view\/(\d+)/): match[1] of the first match, else null
extractJobKey(href) ==
  LET hits == {k \in 1..(Len(href) - 1) : href[k] = "view/" /\ href[k + 1] \in Digits}
  IN IF hits = {} THEN Null
     ELSE href[(CHOOSE k \in hits : \A j \in hits : k <= j) + 1]

\* index of the group of jobId in groups, 0 if linksByJobId has no such key
GroupOf(groups, jobId) ==
  IF \E g \in 1..Len(groups) : groups[g].jobId = jobId
  THEN CHOOSE g \in 1..Len(groups) : groups[g].jobId = jobId
  ELSE 0

\* the group's entry when its first link is met, remembering the last href seen
AddLink_LastHref(groups, link, jobId) ==
  LET g == GroupOf(groups, jobId)
  IN IF g = 0
     THEN Append(groups, [jobId |-> jobId, links |-> <<link>>, firstHref |-> link.href])
     ELSE [groups EXCEPT ![g].links = Append(@, link), ![g].firstHref = link.href]

\* linksByJobId.set(jobId, {links: [], firstHref: href}) if new; links.push(link)
AddLink(groups, link, jobId) ==
  LET g == GroupOf(groups, jobId)
  IN IF g = 0
     THEN Append(groups, [jobId |-> jobId, links |-> <<link>>, firstHref |-> link.href])
     ELSE [groups EXCEPT ![g].links = Append(@, link)]

\* allLinks.forEach: links without a job key are left out
RECURSIVE GroupLinks(_, _)
GroupLinks(links, groups) ==
  IF links = <<>> THEN groups
  ELSE LET jobId == extractJobKey(Head(links).href)
       IN GroupLinks(Tail(links),
                     IF jobId = Null THEN groups ELSE AddLink(groups, Head(links), jobId))

\* the inner loop over the links of a group: title from the first link without
\* <p> whose text has at least 5 characters, company and location from the first
\* "Company · Location" paragraph
RECURSIVE ScanLinks(_, _)
ScanLinks(links, acc) ==
  IF links = <<>> THEN acc
  ELSE LET link == Head(links)
           next ==
             IF ~link.hasP
             THEN (IF TextLen(link.text) >= 5 /\ acc.title = ""
                   THEN [acc EXCEPT !.title = link.text] ELSE acc)
             ELSE (IF acc.company = "" /\ link.company # ""
                   THEN [acc EXCEPT !.company = link.company,
                                    !.location = link.location]
                   ELSE acc)
       IN ScanLinks(Tail(links), next)

\* the loop over linksByJobId, in insertion order
RECURSIVE EmitGroups(_)
EmitGroups(groups) ==
  IF groups = <<>> THEN <<>>
  ELSE LET g == Head(groups)
           f == ScanLinks(g.links, [title |-> "", company |-> "", location |-> ""])
       IN (IF f.title = "" \/ TextLen(f.title) < 3 THEN <<>>
           ELSE <<[title |-> f.title,
                   company |-> IF f.company = "" THEN "Unknown" ELSE f.company,
                   location |-> f.location,
                   url |-> cleanUrl(g.firstHref),
                   source |-> "linkedin"]>>)
          \o EmitGroups(Tail(groups))

linkedinParse(links) == EmitGroups(GroupLinks(links, <<>>))

\* an anchor: its href and what it contains
Href(id, suffix) == <<"http://h/", "view/", id>> \o suffix

TitleLink(href, text) ==
  [href |-> href, hasP |-> FALSE, text |-> text, company |-> "", location |-> ""]

InfoLink(href, company, location) ==
  [href |-> href, hasP |-> TRUE, text |-> "", company |-> company,
   location |-> location]

LinkHrefs ==
  {Href(id, suffix) : id \in Digits \cup {"x"},
                      suffix \in {<<"?", "utm_source=z">>, <<"?", "x=1">>}}

LinkedinLinks ==
  {TitleLink(h, t) : h \in LinkHrefs, t \in {"React Developer", "Data Clerk", "QA"}}
  \cup {InfoLink(h, "Acme", "Remote") : h \in LinkHrefs}

LinkedinBodies == UNION {[1..l -> LinkedinLinks] : l \in 0..MaxLinks}

LinkedinParseStep ==
  /\ liOut = <<>>
  /\ liOut' = <<linkedinParse(liLinks)>>
  /\ UNCHANGED <<liLinks, cuUrl, cuOut, gpLinks, gpOut, itTitle, itOut, moreVars, dFrom,
                 dHtml, dInvoked, sessVars, runVars, uiVars, histVars>>

InitLinkedin ==
  /\ InitRun
  /\ InferTagsIdle
  /\ DashboardIdle
  /\ GlassdoorIdle
  /\ IndeedIdle
  /\ CleanUrlIdle
  /\ GenericIdle
  /\ InferTypeIdle
  /\ store = <<>>
  /\ jobsCache = NoJobs
  /\ storeAtStart = <<>>
  /\ dFrom = <<>>
  /\ dHtml = FALSE
  /\ dInvoked = Pending
  /\ liLinks \in LinkedinBodies
  /\ liOut = <<>>

NextLinkedin == LinkedinParseStep

SpecLinkedin == InitLinkedin /\ [][NextLinkedin]_vars

----------------------------------------------------------------------------
(* genericParser.parse on the a[href] elements of the body.  The href atoms are *)
(* those of cleanUrl with "jobs/posting/" as a longer path and the words the    *)
(* parser looks for.                                                            *)

\* the number of characters of an atom
AtomLen(a) ==
  CASE a = "http://h/"     -> 9
    [] a = "view/"         -> 5
    [] a = "jobs/posting/" -> 13
    [] a = "unsubscribe"   -> 11
    [] a = "utm_source=z"  -> 12
    [] a = "x=1"           -> 3
    [] OTHER               -> 1

\* href.length
RECURSIVE HrefLen(_)
HrefLen(h) == IF h = <<>> THEN 0 ELSE AtomLen(Head(h)) + HrefLen(Tail(h))

NonJobWords == {"unsubscribe", "mailto:", "privacy", "terms", "preferences", "#"}

\* the "Skip common non-job links" condition
SkipHref(href) ==
  \/ \E k \in 1..Len(href) : href[k] \in NonJobWords
  \/ HrefLen(href) < 20

\* titleText.toLowerCase()
LowerText(t) ==
  CASE t = "Click Here" -> "click here"
    [] t = "View"       -> "view"
    [] OTHER            -> t

GenericTexts == {"click here", "learn more", "read more", "view", "apply"}

\* the conditions on titleText under which the link is skipped
SkipText(t) ==
  \/ t = ""
  \/ TextLen(t) < 5
  \/ TextLen(t) > 200
  \/ LowerText(t) \in GenericTexts

\* links.forEach with seenUrls and jobs as they stand after the links so far
RECURSIVE GenericScan(_, _, _)
GenericScan(links, seenUrls, jobs) ==
  IF links = <<>> THEN jobs
  ELSE LET link == Head(links)
           url == cleanUrl(link.href)
       IN IF SkipHref(link.href) \/ url \in seenUrls
          THEN GenericScan(Tail(links), seenUrls, jobs)
          ELSE IF SkipText(link.text)
          THEN GenericScan(Tail(links), seenUrls \cup {url}, jobs)
          ELSE GenericScan(Tail(links), seenUrls \cup {url},
                           Append(jobs, [title |-> link.text, company |-> "Unknown",
                                         location |-> "", url |-> url,
                                         source |-> "email"]))

genericParse(links) == GenericScan(links, {}, <<>>)

GenericHrefs ==
  { <<"http://h/", "jobs/posting/", "1">>,
    <<"http://h/", "jobs/posting/", "1", "?", "utm_source=z">>,
    <<"http://h/", "jobs/posting/", "2">>,
    <<"http://h/", "jobs/posting/", "unsubscribe">>,
    <<"http://h/", "view/", "1">> }

GenericLinks ==
  {[href |-> h, text |-> t] :
     h \in GenericHrefs,
     t \in {"Senior Widget Engineer", "Click Here", "View",
            "Widget makers of every kind wanted ..."}}

GenericBodies == UNION {[1..l -> GenericLinks] : l \in 0..MaxLinks}

GenericParseStep ==
  /\ gpOut = <<>>
  /\ gpOut' = <<genericParse(gpLinks)>>
  /\ UNCHANGED <<gpLinks, cuUrl, cuOut, liLinks, liOut, itTitle, itOut, moreVars, dFrom,
                 dHtml, dInvoked, sessVars, runVars, uiVars, histVars>>

InitGeneric ==
  /\ InitRun
  /\ InferTagsIdle
  /\ DashboardIdle
  /\ GlassdoorIdle
  /\ IndeedIdle
  /\ CleanUrlIdle
  /\ LinkedinIdle
  /\ InferTypeIdle
  /\ store = <<>>
  /\ jobsCache = NoJobs
  /\ storeAtStart = <<>>
  /\ dFrom = <<>>
  /\ dHtml = FALSE
  /\ dInvoked = Pending
  /\ gpLinks \in GenericBodies
  /\ gpOut = <<>>

NextGeneric == GenericParseStep

SpecGeneric == InitGeneric /\ [][NextGeneric]_vars

----------------------------------------------------------------------------
(* parsers/utils.inferType.  A title or keyword is the sequence of its words    *)
(* and the blanks between them; "developer" is written "dev" "eloper" because   *)
(* the keywords 'software dev' and 'game dev' end inside it.                    *)

MaxTitleAtoms == 4   \* longest title, in atoms

\* the table with the game-dev row moved to the front
TYPE_KEYWORDS_GameDevFirst ==
  <<
    [type |-> "game-dev", keywords |-> <<
       <<"game", " ", "dev", "eloper">>, <<"game", " ", "designer">>,
       <<"game", " ", "programmer">>, <<"unity">>, <<"unreal">>,
       <<"game", " ", "artist">>, <<"game", " ", "producer">>,
       <<"game", " ", "dev">> >>],
    [type |-> "developer", keywords |-> <<
       <<"dev", "eloper">>, <<"software", " ", "engineer">>,
       <<"software", " ", "dev">>, <<"full", " ", "stack">>, <<"fullstack">>,
       <<"frontend">>, <<"front-end">>, <<"front", " ", "end", " ", "engineer">>,
       <<"backend">>, <<"back-end">>, <<"web", " ", "dev", "eloper">>,
       <<"web", " ", "development">>, <<"mobile", " ", "dev", "eloper">>,
       <<"react">>, <<"angular">>, <<"vue">>, <<"node">>, <<"python">>,
       <<"java", " ", "dev", "eloper">>, <<".net">>, <<"devops">>,
       <<"cloud", " ", "engineer">>, <<"sre">>, <<"data", " ", "engineer">>,
       <<"ml", " ", "engineer">>, <<"ai", " ", "engineer">>,
       <<"ai", " ", "architect">>, <<"cyber", " ", "security", " ", "engineer">>,
       <<"security", " ", "engineer">>, <<"vdi", " ", "engineer">>,
       <<"software", " ", "implementation">>, <<"développeur">>,
       <<"computer", " ", "engineer">> >>],
    [type |-> "designer", keywords |-> <<
       <<"ui", " ", "designer">>, <<"ux", " ", "designer">>, <<"ui/ux">>,
       <<"graphic", " ", "designer">>, <<"visual", " ", "designer">>,
       <<"product", " ", "designer">>, <<"web", " ", "designer">>,
       <<"interaction", " ", "designer">> >>],
    [type |-> "it-support", keywords |-> <<
       <<"it", " ", "support">>, <<"help", " ", "desk">>, <<"helpdesk">>,
       <<"system", " ", "admin">>, <<"sysadmin">>, <<"network", " ", "admin">>,
       <<"network", " ", "manager">>, <<"network", " ", "security">>,
       <<"it", " ", "technician">>, <<"desktop", " ", "support">>,
       <<"it", " ", "specialist">>, <<"it", " ", "analyst">>,
       <<"it", " ", "admin">>, <<"it", " ", "summer">>, <<"it", " ", "systems">>,
       <<"it", " ", "/">>, <<"junior", " ", "it">>, <<"service", " ", "desk">>,
       <<"application", " ", "support">>, <<"computer", " ", "support">>,
       <<"computer", " ", "operator">>, <<"computer", " ", "network">>,
       <<"technical", " ", "support">>, <<"technology", " ", "support">>,
       <<"support", " ", "specialist">>, <<"information", " ", "technology">>,
       <<"ict", " ", "systems">>,
       <<"ingénierie", " ", "des", " ", "systèmes", " ", "tic">>,
       <<"technologies", " ", "de", " ", "l'informatique">>,
       <<"identity", " ", "and", " ", "access">> >>],
    [type |-> "data-entry", keywords |-> <<
       <<"data", " ", "entry">>, <<"data", " ", "administrator">> >>]
  >>

\* TYPE_KEYWORDS, in the order Object.entries enumerates it
TYPE_KEYWORDS ==
  <<
    [type |-> "developer", keywords |-> <<
       <<"dev", "eloper">>, <<"software", " ", "engineer">>,
       <<"software", " ", "dev">>, <<"full", " ", "stack">>, <<"fullstack">>,
       <<"frontend">>, <<"front-end">>, <<"front", " ", "end", " ", "engineer">>,
       <<"backend">>, <<"back-end">>, <<"web", " ", "dev", "eloper">>,
       <<"web", " ", "development">>, <<"mobile", " ", "dev", "eloper">>,
       <<"react">>, <<"angular">>, <<"vue">>, <<"node">>, <<"python">>,
       <<"java", " ", "dev", "eloper">>, <<".net">>, <<"devops">>,
       <<"cloud", " ", "engineer">>, <<"sre">>, <<"data", " ", "engineer">>,
       <<"ml", " ", "engineer">>, <<"ai", " ", "engineer">>,
       <<"ai", " ", "architect">>, <<"cyber", " ", "security", " ", "engineer">>,
       <<"security", " ", "engineer">>, <<"vdi", " ", "engineer">>,
       <<"software", " ", "implementation">>, <<"développeur">>,
       <<"computer", " ", "engineer">> >>],
    [type |-> "game-dev", keywords |-> <<
       <<"game", " ", "dev", "eloper">>, <<"game", " ", "designer">>,
       <<"game", " ", "programmer">>, <<"unity">>, <<"unreal">>,
       <<"game", " ", "artist">>, <<"game", " ", "producer">>,
       <<"game", " ", "dev">> >>],
    [type |-> "designer", keywords |-> <<
       <<"ui", " ", "designer">>, <<"ux", " ", "designer">>, <<"ui/ux">>,
       <<"graphic", " ", "designer">>, <<"visual", " ", "designer">>,
       <<"product", " ", "designer">>, <<"web", " ", "designer">>,
       <<"interaction", " ", "designer">> >>],
    [type |-> "it-support", keywords |-> <<
       <<"it", " ", "support">>, <<"help", " ", "desk">>, <<"helpdesk">>,
       <<"system", " ", "admin">>, <<"sysadmin">>, <<"network", " ", "admin">>,
       <<"network", " ", "manager">>, <<"network", " ", "security">>,
       <<"it", " ", "technician">>, <<"desktop", " ", "support">>,
       <<"it", " ", "specialist">>, <<"it", " ", "analyst">>,
       <<"it", " ", "admin">>, <<"it", " ", "summer">>, <<"it", " ", "systems">>,
       <<"it", " ", "/">>, <<"junior", " ", "it">>, <<"service", " ", "desk">>,
       <<"application", " ", "support">>, <<"computer", " ", "support">>,
       <<"computer", " ", "operator">>, <<"computer", " ", "network">>,
       <<"technical", " ", "support">>, <<"technology", " ", "support">>,
       <<"support", " ", "specialist">>, <<"information", " ", "technology">>,
       <<"ict", " ", "systems">>,
       <<"ingénierie", " ", "des", " ", "systèmes", " ", "tic">>,
       <<"technologies", " ", "de", " ", "l'informatique">>,
       <<"identity", " ", "and", " ", "access">> >>],
    [type |-> "data-entry", keywords |-> <<
       <<"data", " ", "entry">>, <<"data", " ", "administrator">> >>]
  >>

\* lower.includes(keyword)
IncludesSeq(s, sub) ==
  \E k \in 0..(Len(s) - Len(sub)) : SubSeq(s, k + 1, k + Len(sub)) = sub

\* the inner loop: some keyword from index i on is included
RECURSIVE AnyKeyword(_, _, _)
AnyKeyword(lower, keywords, i) ==
  IF i > Len(keywords) THEN FALSE
  ELSE IF IncludesSeq(lower, keywords[i]) THEN TRUE
  ELSE AnyKeyword(lower, keywords, i + 1)

\* the outer loop from table row t on
RECURSIVE TypeFrom(_, _)
TypeFrom(lower, t) ==
  IF t > Len(TYPE_KEYWORDS) THEN "other"
  ELSE IF AnyKeyword(lower, TYPE_KEYWORDS[t].keywords, 1) THEN TYPE_KEYWORDS[t].type
  ELSE TypeFrom(lower, t + 1)

inferType(title) == TypeFrom(toLowerCase(title), 1)

TitleAtoms ==
  {" ", "Game", "dev", "eloper", "designer", "UI", "it", "support", "data", "entry",
   "React"}

Titles == UNION {[1..l -> TitleAtoms] : l \in 0..MaxTitleAtoms}

InferTypeStep ==
  /\ itOut = <<>>
  /\ itOut' = <<inferType(itTitle)>>
  /\ UNCHANGED <<itTitle, cuUrl, cuOut, liLinks, liOut, gpLinks, gpOut, moreVars, dFrom, dHtml,
                 dInvoked, sessVars, runVars, uiVars, histVars>>

InitInferType ==
  /\ InitRun
  /\ InferTagsIdle
  /\ DashboardIdle
  /\ GlassdoorIdle
  /\ IndeedIdle
  /\ CleanUrlIdle
  /\ LinkedinIdle
  /\ GenericIdle
  /\ store = <<>>
  /\ jobsCache = NoJobs
  /\ storeAtStart = <<>>
  /\ dFrom = <<>>
  /\ dHtml = FALSE
  /\ dInvoked = Pending
  /\ itTitle \in Titles
  /\ itOut = <<>>

NextInferType == InferTypeStep

SpecInferType == InitInferType /\ [][NextInferType]_vars

----------------------------------------------------------------------------
(* glassdoorParser.parse and indeedParser.parse on the anchors their selectors  *)
(* match.  A textContent is a sequence of atoms: words, " " for white space and *)
(* "&nbsp;" for the entity; a cleaned text is such a sequence too.              *)

MaxParas == 2        \* most <p> (or child) elements inside one anchor

\* cleanText: "&nbsp;" becomes a space, runs of white space collapse, then trim
cleanText(text) ==
  LET RECURSIVE Squeeze(_, _)
      Squeeze(rest, out) ==
        IF rest = <<>> THEN out
        ELSE IF Head(rest) \in {" ", "&nbsp;"}
        THEN Squeeze(Tail(rest),
                     IF out = <<>> \/ out[Len(out)] = " " THEN out
                     ELSE Append(out, " "))
        ELSE Squeeze(Tail(rest), Append(out, Head(rest)))
      t == Squeeze(text, <<>>)
  IN IF t # <<>> /\ t[Len(t)] = " " THEN SubSeq(t, 1, Len(t) - 1) ELSE t

\* text.length of a cleaned text
RECURSIVE TextLength(_)
TextLength(t) == IF t = <<>> THEN 0 ELSE TextLen(Head(t)) + TextLength(Tail(t))

\* glassdoorParser.parse pushing the company as it was found
GlassdoorRecord_NoDefault(title, company, location, url) ==
  [title |-> title, company |-> company, location |-> location, url |-> url,
   source |-> "glassdoor"]

\* jobs.push({title, company: company || 'Unknown', location, url, ...})
GlassdoorRecord(title, company, location, url) ==
  [title |-> title, company |-> IF company = <<>> THEN <<"Unknown">> ELSE company,
   location |-> location, url |-> url, source |-> "glassdoor"]

\* the body of links.forEach for one anchor not seen before: <<>> or <<record>>
GlassdoorLink(link, url) ==
  LET RECURSIVE Paras(_, _, _)
      \* title: the first non-empty bold paragraph; the others are collected
      Paras(ps, title, others) ==
        IF ps = <<>> THEN [title |-> title, others |-> others]
        ELSE LET text == cleanText(Head(ps).text)
             IN IF text = <<>> THEN Paras(Tail(ps), title, others)
                ELSE IF title = <<>> /\ Head(ps).bold
                THEN Paras(Tail(ps), text, others)
                ELSE Paras(Tail(ps), title, Append(others, text))
      \* ratings, salaries and "Easy Apply" are skipped
      Skipped(text) ==
        \/ text = <<"4.2 *">>
        \/ \E k \in 1..Len(text) : text[k] = "$50K"
        \/ text = <<"Easy Apply">>
      RECURSIVE Classify(_, _, _)
      Classify(ts, company, location) ==
        IF ts = <<>> THEN [company |-> company, location |-> location]
        ELSE IF Skipped(Head(ts)) THEN Classify(Tail(ts), company, location)
        ELSE IF company = <<>> THEN Classify(Tail(ts), Head(ts), location)
        ELSE IF location = <<>> THEN Classify(Tail(ts), company, Head(ts))
        ELSE Classify(Tail(ts), company, location)
      p == Paras(link.paras, <<>>, <<>>)
      c == Classify(p.others, <<>>, <<>>)
  IN IF p.title = <<>> \/ TextLength(p.title) < 3 THEN <<>>
     ELSE <<GlassdoorRecord(p.title, c.company, c.location, url)>>

\* links.forEach with seenUrls
RECURSIVE GlassdoorScan(_, _, _)
GlassdoorScan(links, seenUrls, jobs) ==
  IF links = <<>> THEN jobs
  ELSE LET url == cleanUrl(Head(links).href)
       IN IF url \in seenUrls THEN GlassdoorScan(Tail(links), seenUrls, jobs)
          ELSE GlassdoorScan(Tail(links), seenUrls \cup {url},
                             jobs \o GlassdoorLink(Head(links), url))

glassdoorParse(links) == GlassdoorScan(links, {}, <<>>)

\* the <p> elements that occur: style bold or not, and the textContent
GlassdoorParas ==
  { [bold |-> TRUE,  text |-> <<" ", "Widget Engineer", " ">>],
    [bold |-> TRUE,  text |-> <<"&nbsp;", " ">>],
    [bold |-> TRUE,  text |-> <<"QA">>],
    [bold |-> FALSE, text |-> <<"Acme">>],
    [bold |-> FALSE, text |-> <<"4.2 *">>],     \* a rating with its star
    [bold |-> FALSE, text |-> <<"$50K">>],
    [bold |-> FALSE, text |-> <<" ">>],
    [bold |-> FALSE, text |-> <<"Toronto, ON">>] }

\* bodies of one anchor, or of that anchor followed by a second posting
GlassdoorBodies ==
  LET hrefs == { <<"http://h/", "jobs/posting/", "1">>,
                 <<"http://h/", "jobs/posting/", "1", "?", "utm_source=z">> }
      paras == UNION {[1..l -> GlassdoorParas] : l \in 0..MaxParas}
      first == {[href |-> h, paras |-> ps] : h \in hrefs, ps \in paras}
      second == {[href |-> h,
                  paras |-> <<[bold |-> TRUE, text |-> <<"Widget Engineer">>]>>] :
                   h \in {<<"http://h/", "jobs/posting/", "1">>,
                          <<"http://h/", "jobs/posting/", "2">>}}
  IN {<<a>> : a \in first} \cup {<<a, b>> : a \in first, b \in second}

GlassdoorParseStep ==
  /\ gdLinks # <<>>
  /\ gdOut = <<>>
  /\ gdOut' = <<glassdoorParse(gdLinks)>>
  /\ UNCHANGED <<gdLinks, inLinks, inOut, tagVars, dashVars, cuUrl, cuOut, liLinks, liOut, gpLinks,
                 gpOut, itTitle, itOut, dFrom, dHtml, dInvoked, sessVars, runVars,
                 uiVars, histVars>>

\* parseJobFromLink: <<>> for null, or <<the title, company and location found>>
parseJobFromLink(link) ==
  LET \* leaf texts of more than one character, each once, in document order
      RECURSIVE Blocks(_, _)
      Blocks(cs, out) ==
        IF cs = <<>> THEN out
        ELSE LET text == cleanText(Head(cs))
             IN Blocks(Tail(cs),
                       IF TextLength(text) > 1 /\ text \notin SeqToSet(out)
                       THEN Append(out, text) ELSE out)
      Letters == {"Widget Engineer", "Acme", "QA", "Remote", "Easily apply", "View"}
      LocationLike(b) ==
        \/ \E k \in 1..Len(b) : b[k] \in {"Toronto, ON", "Remote"}
        \/ /\ b[1] \in Letters
           /\ \A k \in 1..Len(b) : b[k] \notin {"$50K", "3 days ago", "Easily apply"}
           /\ TextLength(b) < 50
      \* the structured path: title, company and the first location-like block
      Structured(textBlocks) ==
        LET locs == {i \in 3..Len(textBlocks) : LocationLike(textBlocks[i])}
        IN <<[title |-> textBlocks[1],
              company |-> IF Len(textBlocks) >= 2 THEN textBlocks[2] ELSE <<>>,
              location |-> IF locs = {} THEN <<>>
                           ELSE textBlocks[CHOOSE i \in locs : \A j \in locs : i <= j]]>>
      \* link.textContent
      RECURSIVE Concat(_)
      Concat(cs) == IF cs = <<>> THEN <<>> ELSE Head(cs) \o Concat(Tail(cs))
      \* index of the first occurrence of an atom, 0 if there is none
      First(t, a) ==
        IF \E k \in 1..Len(t) : t[k] = a
        THEN CHOOSE k \in 1..Len(t) : t[k] = a /\ \A j \in 1..(k - 1) : t[j] # a
        ELSE 0
      \* split(/(?<=[a-z])(?=[A-Z][a-z])/): the last place where a word ending in
      \* a small letter is followed at once by a capitalised word
      EndsLower == {"Widget Engineer", "Acme", "Easily apply", "Remote",
                    "3 days ago", "View"}
      StartsCapLower == {"Widget Engineer", "Acme", "Easily apply", "Remote",
                         "Toronto, ON", "View"}
      Split(beforeLocation, location) ==
        LET splits == {k \in 1..(Len(beforeLocation) - 1) :
                         /\ beforeLocation[k] \in EndsLower
                         /\ beforeLocation[k + 1] \in StartsCapLower}
            last == CHOOSE k \in splits : \A j \in splits : j <= k
        IN IF beforeLocation = <<>> \/ TextLength(beforeLocation) < 3 THEN <<>>
           ELSE IF splits # {}
           THEN <<[title |-> SubSeq(beforeLocation, 1, last),
                   company |-> SubSeq(beforeLocation, last + 1, Len(beforeLocation)),
                   location |-> location]>>
           ELSE <<[title |-> beforeLocation, company |-> <<>>,
                   location |-> location]>>
      \* /([A-Z][a-zA-Z\s]+,\s*[A-Z]{2})/: the leftmost match reaches back over
      \* the letters and spaces before the "City, XX" it ends with
      Locate(relevantText) ==
        LET city == First(relevantText, "Toronto, ON")
            from == IF city = 0 THEN 0
                    ELSE CHOOSE j \in 1..city :
                           /\ relevantText[j] \in Letters \cup {"Toronto, ON"}
                           /\ \A i \in j..(city - 1) :
                                relevantText[i] \in Letters \cup {" "}
                           /\ \A h \in 1..(j - 1) :
                                \/ relevantText[h] \notin Letters
                                \/ \E i \in h..(city - 1) :
                                     relevantText[i] \notin Letters \cup {" "}
            remote == IF city = 0 THEN First(relevantText, "Remote") ELSE 0
        IN Split(cleanText(IF city > 0 THEN SubSeq(relevantText, 1, from - 1)
                           ELSE IF remote > 1 THEN SubSeq(relevantText, 1, remote - 1)
                           ELSE relevantText),
                 IF city > 0 THEN cleanText(SubSeq(relevantText, from, city))
                 ELSE IF remote > 1 THEN <<"Remote">> ELSE <<>>)
      \* the fallback path: the text before "Easily apply", a salary or an age
      Fallback(fullText) ==
        LET easy == First(fullText, "Easily apply")
            salary == First(fullText, "$50K")
            ago == First(fullText, "3 days ago")
            cut == IF easy > 1 THEN easy ELSE IF salary > 1 THEN salary
                   ELSE IF ago > 1 THEN ago ELSE Len(fullText) + 1
        IN IF fullText = <<>> THEN <<>> ELSE Locate(SubSeq(fullText, 1, cut - 1))
      Choose(textBlocks) ==
        IF textBlocks # <<>> THEN Structured(textBlocks)
        ELSE Fallback(cleanText(IF link.children = <<>> THEN link.text
                                ELSE Concat(link.children)))
  IN Choose(IF Len(link.children) >= 2 THEN Blocks(link.children, <<>>) ELSE <<>>)

\* links.forEach of indeedParser.parse with seenUrls
RECURSIVE IndeedScan(_, _, _)
IndeedScan(links, seenUrls, jobs) ==
  IF links = <<>> THEN jobs
  ELSE LET Visit(url, found) ==
             IF url \in seenUrls THEN IndeedScan(Tail(links), seenUrls, jobs)
             ELSE IF \/ found = <<>>
                     \/ TextLength(found[1].title) < 3
                     \/ TextLength(found[1].title) > 150
                     \/ found[1].title = <<"View">>
             THEN IndeedScan(Tail(links), seenUrls \cup {url}, jobs)
             ELSE IndeedScan(Tail(links), seenUrls \cup {url},
                    Append(jobs,
                           [title |-> found[1].title,
                            company |-> IF found[1].company = <<>> THEN <<"Unknown">>
                                        ELSE found[1].company,
                            location |-> found[1].location, url |-> url,
                            source |-> "indeed"]))
       IN Visit(cleanUrl(Head(links).href), parseJobFromLink(Head(links)))

indeedParse(links) == IndeedScan(links, {}, <<>>)

\* bodies of one anchor: a card of child elements, or flat text
IndeedBodies ==
  LET leaves == { <<" ">>, <<"Q">>, <<"View">>, <<"Widget Engineer", " ">>,
                  <<"&nbsp;", "Acme">>, <<"Toronto, ON">> }
      words == {" ", "-", "QA", "View", "Widget Engineer", "Acme", "Toronto, ON",
                "Remote", "$50K", "Easily apply", "3 days ago"}
      href == <<"http://h/", "jobs/posting/", "1">>
  IN {<<[href |-> href, children |-> cs, text |-> <<>>]>> :
        cs \in UNION {[1..l -> leaves] : l \in 1..(MaxParas + 1)}}
     \cup {<<[href |-> href, children |-> <<>>, text |-> t]>> :
             t \in UNION {[1..l -> words] : l \in 0..MaxTitleAtoms}}

IndeedParseStep ==
  /\ inLinks # <<>>
  /\ inOut = <<>>
  /\ inOut' = <<indeedParse(inLinks)>>
  /\ UNCHANGED <<inLinks, gdLinks, gdOut, tagVars, dashVars, cuUrl, cuOut, liLinks, liOut, gpLinks,
                 gpOut, itTitle, itOut, dFrom, dHtml, dInvoked, sessVars, runVars,
                 uiVars, histVars>>

\* the four parsers, each on its own bodies
InitParsers ==
  /\ InitRun
  /\ InferTagsIdle
  /\ DashboardIdle
  /\ CleanUrlIdle
  /\ InferTypeIdle
  /\ store = <<>>
  /\ jobsCache = NoJobs
  /\ storeAtStart = <<>>
  /\ dFrom = <<>>
  /\ dHtml = FALSE
  /\ dInvoked = Pending
  /\ liOut = <<>>
  /\ gpOut = <<>>
  /\ gdOut = <<>>
  /\ inOut = <<>>
  /\ \/ /\ liLinks \in LinkedinBodies \ {<<>>}
        /\ gpLinks = <<>> /\ gdLinks = <<>> /\ inLinks = <<>>
     \/ /\ gpLinks \in GenericBodies \ {<<>>}
        /\ liLinks = <<>> /\ gdLinks = <<>> /\ inLinks = <<>>
     \/ /\ gdLinks \in GlassdoorBodies
        /\ liLinks = <<>> /\ gpLinks = <<>> /\ inLinks = <<>>
     \/ /\ inLinks \in IndeedBodies
        /\ liLinks = <<>> /\ gpLinks = <<>> /\ gdLinks = <<>>

NextParsers ==
  \/ liLinks # <<>> /\ LinkedinParseStep
  \/ gpLinks # <<>> /\ GenericParseStep
  \/ GlassdoorParseStep
  \/ IndeedParseStep

SpecParsers == InitParsers /\ [][NextParsers]_vars

----------------------------------------------------------------------------
(* inferTags on texts made of the atoms the tag keywords are made of *)

\* tagKeywords, in the order of Object.entries
TAG_KEYWORDS ==
  << [tag |-> "remote",
      keywords |-> << <<"remote">>, <<"work from home">>, <<"wfh">> >>],
     [tag |-> "hybrid", keywords |-> << <<"hybrid">> >>],
     [tag |-> "onsite",
      keywords |-> << <<"on", "-", "site">>, <<"on", "site">>, <<"in-office">> >>],
     [tag |-> "senior",
      keywords |-> << <<"senior">>, <<"sr.">>, <<"lead">>, <<"principal">>,
                      <<"staff">> >>],
     [tag |-> "junior",
      keywords |-> << <<"junior">>, <<"jr.">>, <<"entry", " ", "level">>,
                      <<"entry", "-", "level">>, <<"intern">> >>],
     [tag |-> "contract",
      keywords |-> << <<"contract">>, <<"freelance">>, <<"temporary">> >>],
     [tag |-> "fulltime",
      keywords |-> << <<"full", "-", "time">>, <<"full", " ", "time">>,
                      <<"permanent">> >>] >>

\* the outer loop from table row t on: the tag is pushed once, at the first
\* keyword of the row that the text includes
RECURSIVE TagsFrom(_, _)
TagsFrom(lower, t) ==
  IF t > Len(TAG_KEYWORDS) THEN <<>>
  ELSE (IF AnyKeyword(lower, TAG_KEYWORDS[t].keywords, 1)
        THEN <<TAG_KEYWORDS[t].tag>> ELSE <<>>)
       \o TagsFrom(lower, t + 1)

\* the loops without the break: the tag is pushed for every keyword found
inferTags_NoBreak(title) ==
  LET lower == toLowerCase(title)
      RECURSIVE Row(_, _)
      Row(t, i) ==
        IF i > Len(TAG_KEYWORDS[t].keywords) THEN <<>>
        ELSE (IF IncludesSeq(lower, TAG_KEYWORDS[t].keywords[i])
              THEN <<TAG_KEYWORDS[t].tag>> ELSE <<>>) \o Row(t, i + 1)
      RECURSIVE Rows(_)
      Rows(t) == IF t > Len(TAG_KEYWORDS) THEN <<>> ELSE Row(t, 1) \o Rows(t + 1)
  IN Rows(1)

inferTags(title) == TagsFrom(toLowerCase(title), 1)

TagTexts ==
  UNION {[1..l -> {" ", "-", "Remote", "wfh", "hybrid", "on", "site", "Senior",
                   "intern", "entry", "level", "full", "time"}] :
           l \in 0..MaxTitleAtoms}

InferTagsStep ==
  /\ tagOut = <<>>
  /\ tagOut' = <<inferTags(tagText)>>
  /\ UNCHANGED <<tagText, dashVars, gdLinks, gdOut, inLinks, inOut, cuUrl, cuOut,
                 liLinks, liOut, gpLinks, gpOut, itTitle, itOut, dFrom, dHtml,
                 dInvoked, sessVars, runVars, uiVars, histVars>>

InitInferTags ==
  /\ InitRun
  /\ DashboardIdle
  /\ GlassdoorIdle
  /\ IndeedIdle
  /\ CleanUrlIdle
  /\ LinkedinIdle
  /\ GenericIdle
  /\ InferTypeIdle
  /\ store = <<>>
  /\ jobsCache = NoJobs
  /\ storeAtStart = <<>>
  /\ dFrom = <<>>
  /\ dHtml = FALSE
  /\ dInvoked = Pending
  /\ tagText \in TagTexts
  /\ tagOut = <<>>

NextInferTags == InferTagsStep

SpecInferTags == InitInferTags /\ [][NextInferTags]_vars

----------------------------------------------------------------------------
(* Dashboard.toggleRead over two jobs.  A click is handled after the render     *)
(* that followed the last state update, so `jobs` in the handler is the state.  *)
(* Writes go to the store over one ordered stream: they settle in the order in  *)
(* which they were issued.                                                      *)

MaxToggles == 3      \* toggleRead calls per session

\* onClick={() => toggleRead(job.id, !job.read)} up to the await of updateDoc
ToggleRead(jobId) ==
  /\ uiRead # <<>>
  /\ toggleNo < MaxToggles
  /\ jobId \in DOMAIN uiRead
  /\ toggleNo' = toggleNo + 1
  /\ toggles' = toggles \cup {[no |-> toggleNo + 1, jobId |-> jobId,
                               read |-> ~uiRead[jobId], originalJobs |-> uiRead]}
  /\ uiRead' = [uiRead EXCEPT ![jobId] = ~uiRead[jobId]]
  /\ UNCHANGED <<dbRead, tagVars, gdLinks, gdOut, inLinks, inOut, cuUrl, cuOut,
                 liLinks, liOut, gpLinks, gpOut, itTitle, itOut, dFrom, dHtml,
                 dInvoked, sessVars, runVars, uiVars, histVars>>

\* the write issued first among those not yet settled
Oldest(t) == \A u \in toggles : t.no <= u.no

\* updateDoc(jobDoc, { read }) resolves
UpdateOk(t) ==
  /\ t \in toggles
  /\ Oldest(t)
  /\ dbRead' = [dbRead EXCEPT ![t.jobId] = t.read]
  /\ toggles' = toggles \ {t}
  /\ UNCHANGED <<uiRead, toggleNo, tagVars, gdLinks, gdOut, inLinks, inOut, cuUrl,
                 cuOut, liLinks, liOut, gpLinks, gpOut, itTitle, itOut, dFrom, dHtml,
                 dInvoked, sessVars, runVars, uiVars, histVars>>

\* updateDoc is rejected: catch { setJobs(originalJobs) }
UpdateFail(t) ==
  /\ t \in toggles
  /\ Oldest(t)
  /\ uiRead' = t.originalJobs
  /\ toggles' = toggles \ {t}
  /\ UNCHANGED <<dbRead, toggleNo, tagVars, gdLinks, gdOut, inLinks, inOut, cuUrl,
                 cuOut, liLinks, liOut, gpLinks, gpOut, itTitle, itOut, dFrom, dHtml,
                 dInvoked, sessVars, runVars, uiVars, histVars>>

\* the Dashboard after loadJobs: the jobs shown are those of the store
InitDashboard ==
  /\ InitRun
  /\ InferTagsIdle
  /\ GlassdoorIdle
  /\ IndeedIdle
  /\ CleanUrlIdle
  /\ LinkedinIdle
  /\ GenericIdle
  /\ InferTypeIdle
  /\ store = <<>>
  /\ jobsCache = NoJobs
  /\ storeAtStart = <<>>
  /\ dFrom = <<>>
  /\ dHtml = FALSE
  /\ dInvoked = Pending
  /\ dbRead \in [1..2 -> BOOLEAN]
  /\ uiRead = dbRead
  /\ toggles = {}
  /\ toggleNo = 0

NextDashboard ==
  \/ \E jobId \in 1..2 : ToggleRead(jobId)
  \/ \E t \in toggles : UpdateOk(t)
  \/ \E t \in toggles : UpdateFail(t)

SpecDashboard == InitDashboard /\ [][NextDashboard]_vars

----------------------------------------------------------------------------
(* Properties *)

PhaseRank(p) ==
  CASE p = "listing"   -> 1
    [] p = "fetching"  -> 2
    [] p = "parsing"   -> 3
    [] p = "saving"    -> 4
    [] p = "archiving" -> 5
    [] OTHER           -> 6

Terminal(p) == p \in {"done", "error"}

Last(s) == s[Len(s)]

\* jobs of the store persisted by the run in progress (or the last one)
PersistedByRun == Cardinality({k \in DOMAIN store : store[k].run = runNo})

ArchivedIds == {i \in DOMAIN archived : archived[i] > 0}

RunEnded == runNo > 0 /\ pc = "idle"

\* C1: the phases of a run are entered in the order listing, fetching, parsing,
\* saving, archiving (archiving only with shouldArchive), none twice, and are
\* followed by exactly one terminal report; a successful run over at least one
\* message skips none; once a cancellation is observed no further phase is entered.
C1_PhaseOrder ==
  runNo > 0 =>
    /\ progress.phase = Last(phaseLog)
    /\ \A i, j \in DOMAIN phaseLog :
         i < j => PhaseRank(phaseLog[i]) < PhaseRank(phaseLog[j])
    /\ \A i \in DOMAIN phaseLog : phaseLog[i] = "archiving" => shouldArchive
    /\ RunEnded <=> Terminal(Last(phaseLog))
    /\ (outcome = "success" /\ Len(ids) >= 1) =>
         phaseLog = <<"listing", "fetching", "parsing", "saving">>
                    \o (IF shouldArchive THEN <<"archiving">> ELSE <<>>)
                    \o <<"done">>
    /\ thrown = "Stopped" =>
         /\ RunEnded
         /\ Len(phaseLog) >= 2
         /\ phaseLog[Len(phaseLog) - 1] = failPhase

\* a complete five-phase run over two batches
C1_Witness ==
  /\ outcome = "success"
  /\ shouldArchive
  /\ Len(ids) > BATCH_SIZE
  /\ Len(phaseLog) = 6

\* C3: after a stop request no further list page, fetch batch, parse step,
\* snapshot read, persist call or archive batch is started; only what was in
\* flight completes.
C3_StopWithinOneBatch ==
  /\ lateStarts = 0
  /\ (aborted /\ RunEnded /\ outcome = "cancelled") => inflight = {}

\* stopped between two fetch batches: the first batch is kept, the second never issued
C3_Witness ==
  /\ outcome = "cancelled"
  /\ failOp = "getLoop"
  /\ Len(messages) = BATCH_SIZE
  /\ Len(ids) > BATCH_SIZE

\* C4: a cancelled run ends with the Stopped report (phase done), whose count is
\* the number of jobs the run persisted; a cancellation observed in listing,
\* fetching or parsing leaves nothing persisted, nothing archived, count 0.
C4_StoppedReport ==
  outcome = "cancelled" =>
    /\ progress.phase = "done"
    /\ progress.message = <<"Stopped", PersistedByRun>>
    /\ progress.newJobsCount = PersistedByRun
    /\ failPhase \in {"listing", "fetching", "parsing"} =>
         /\ PersistedByRun = 0
         /\ store = storeAtStart
         /\ ArchivedIds = {}
         /\ progress.message = <<"Stopped", 0>>

\* stopped inside the saving loop after something was persisted
C4_Witness ==
  /\ outcome = "cancelled"
  /\ failOp = "saveLoop"
  /\ PersistedByRun >= 1
  /\ idx < Len(allJobs)

\* C2: a run over the same messages as the run before it, whose saving loop ran
\* over every candidate, persists nothing and reports newJobsCount = 0.
C2_SecondRunPersistsNothing ==
  rerun =>
    /\ PersistedByRun = 0
    /\ newJobsCount = 0
    /\ RunEnded => progress.newJobsCount = 0

\* C5: a rejected persist call skips that candidate only: the run does not end in
\* the error state because of it and the saving loop goes on.
C5_PersistFailureSkipped ==
  \A k \in DOMAIN saveLog :
    saveLog[k].result = "failed" =>
      /\ ~(RunEnded /\ outcome = "error")
      /\ ~(RunEnded /\ k = Len(saveLog) /\ k < Len(allJobs))

\* the terminal report names phase p
PhaseTagged(p) ==
  \/ progress.phase = p
  \/ \E k \in DOMAIN progress.message : progress.message[k] = p

TransportOps == {"list", "get", "archive"}

\* C7 as stated: a rejected list, get or archive request ends the run in the error
\* outcome, keeps what was persisted, and in listing or fetching leaves store and
\* mailbox as they were.
C7_TransportFailureIsError ==
  (thrown = "failure" /\ failOp \in TransportOps) =>
    /\ RunEnded
    /\ outcome = "error"
    /\ Len(store) = Len(storeAtStart) + newJobsCount
    /\ failOp \in {"list", "get"} => (store = storeAtStart /\ ArchivedIds = {})

\* C7 amended: a rejected list, get or archive request ends the run at once, in
\* the error outcome unless a stop request is pending, in which case the run ends
\* as cancelled; no later phase is started, the store is left as it is with every
\* job the run persisted, and in listing or fetching store and mailbox are as
\* they were before the run.
C7_TransportFailure ==
  [][ (thrown = "none" /\ thrown' = "failure" /\ failOp' \in TransportOps) =>
        /\ outcome' = (IF aborted THEN "cancelled" ELSE "error")
        /\ pc' = "idle"
        /\ phaseLog' = Append(phaseLog, progress'.phase)
        /\ failPhase' = Last(phaseLog)
        /\ store' = store
        /\ Len(store) = Len(storeAtStart) + newJobsCount
        /\ PersistedByRun' = newJobsCount
        /\ failOp' \in {"list", "get"} =>
             (store' = storeAtStart /\ ArchivedIds' = {}) ]_vars

\* an archive request fails after jobs were persisted and no stop is pending
C7_Witness ==
  /\ thrown = "failure"
  /\ failOp = "archive"
  /\ outcome = "error"
  /\ PersistedByRun >= 1

\* the number of job cards in the HTML bodies of messages 1..k of this run
RECURSIVE CardsUpTo(_)
CardsUpTo(k) ==
  IF k = 0 THEN 0
  ELSE CardsUpTo(k - 1)
       + (IF Msg(k, inboxN, corrupt).hasHtml THEN Len(Msg(k, inboxN, corrupt).cards)
          ELSE 0)

\* the Done report states a number of archived messages
CarriesArchivedCount == Len(progress.message) = 4

SuccessCounts ==
  /\ progress.phase = "done"
  /\ progress.current = CardsUpTo(Len(ids))
  /\ progress.total = CardsUpTo(Len(ids))
  /\ progress.newJobsCount = PersistedByRun

\* C8 as stated: every successful terminal report has phase done, current = total
\* = candidates found, newJobsCount = jobs persisted and, exactly when archiving
\* was requested, the number of archived messages (all the listed ones).
C8_SuccessReportAlways ==
  outcome = "success" =>
    /\ SuccessCounts
    /\ shouldArchive <=> CarriesArchivedCount
    /\ shouldArchive =>
         /\ progress.message = <<"Done", PersistedByRun, "archived", Len(ids)>>
         /\ ArchivedIds = 1..Len(ids)

\* C8 amended: the successful terminal report of a run that listed at least one
\* message has phase done, current = total = candidates found, newJobsCount = jobs
\* persisted and, exactly when archiving was requested, the number of archived
\* messages, which is the number listed; a run that lists no message reports done
\* with all counts 0 and no archived count, whether or not archiving was requested.
C8_SuccessReport ==
  outcome = "success" =>
    /\ RunEnded
    /\ SuccessCounts
    /\ IF Len(ids) = 0
       THEN /\ progress.current = 0
            /\ progress.newJobsCount = 0
            /\ progress.message = <<"No emails found">>
            /\ ArchivedIds = {}
       ELSE IF shouldArchive
       THEN /\ progress.message = <<"Done", PersistedByRun, "archived", Len(ids)>>
            /\ \A i \in DOMAIN archived :
                 archived[i] = (IF i \in 1..Len(ids) THEN 1 ELSE 0)
       ELSE /\ progress.message = <<"Done", PersistedByRun>>
            /\ ArchivedIds = {}

\* an archiving run that found more candidates than it persisted
C8_Witness ==
  /\ outcome = "success"
  /\ shouldArchive
  /\ Len(ids) >= 2
  /\ PersistedByRun >= 1
  /\ progress.current > PersistedByRun

\* the character at position i of a string ("" past its end)
RECURSIVE CharAt(_, _)
CharAt(s, i) ==
  IF s = <<>> THEN ""
  ELSE IF i <= Head(s).n THEN Head(s).c
  ELSE CharAt(Tail(s), i - Head(s).n)

\* the positions at which a run of s ends
RECURSIVE RunEnds(_, _)
RunEnds(s, base) ==
  IF s = <<>> THEN {}
  ELSE {base + Head(s).n} \cup RunEnds(Tail(s), base + Head(s).n)

\* u and v have the same first MAX_URL_LENGTH characters; both are constant
\* between two run ends, so one position per stretch decides
AgreeOnPrefix(u, v) ==
  \A i \in (RunEnds(u, 0) \cup RunEnds(v, 0) \cup {MAX_URL_LENGTH, StrLen(u) + 1,
                                                   StrLen(v) + 1}) :
    i <= MAX_URL_LENGTH => CharAt(u, i) = CharAt(v, i)

\* C9: no URL persisted by a run is longer than MAX_URL_LENGTH, and a candidate is
\* never persisted when its URL agrees on the first MAX_URL_LENGTH characters
\* with the URL of a job of the store snapshot or of a candidate persisted
\* earlier in the run.
C9_TruncationConsistent ==
  /\ \A k \in DOMAIN store :
       store[k].run >= 1 => StrLen(store[k].url) <= MAX_URL_LENGTH
  /\ \A k \in DOMAIN saveLog :
       saveLog[k].result = "persisted" =>
         /\ \A j \in 1..(k - 1) :
              saveLog[j].result = "persisted" =>
                ~AgreeOnPrefix(saveLog[j].job.url, saveLog[k].job.url)
         /\ \A d \in 1..Len(snapshot.jobs) :
              ~AgreeOnPrefix(store[d].url, saveLog[k].job.url)

\* a candidate with an over-long URL is recognised although its URL differs, past
\* the limit, from the one persisted before it
C9_Witness ==
  \E j, k \in DOMAIN saveLog :
    /\ j < k
    /\ saveLog[j].result = "persisted"
    /\ saveLog[k].result = "known"
    /\ StrLen(saveLog[k].job.url) > MAX_URL_LENGTH
    /\ saveLog[j].job.url # saveLog[k].job.url
    /\ saveLog[j].job.title # saveLog[k].job.title
    /\ AgreeOnPrefix(saveLog[j].job.url, saveLog[k].job.url)

\* the sender the parsers are asked about: the tokens between the first "<" that
\* has a ">" at least two places on and the first such ">", else the whole header
SenderTokens(h) ==
  LET opens == {p \in DOMAIN h : h[p] = "<" /\ \E q \in DOMAIN h : q > p + 1 /\ h[q] = ">"}
  IN IF opens = {} THEN {h[k] : k \in DOMAIN h}
     ELSE LET p == CHOOSE x \in opens : \A y \in opens : x <= y
              q == CHOOSE x \in DOMAIN h :
                     /\ x > p + 1 /\ h[x] = ">"
                     /\ \A y \in DOMAIN h : (y > p + 1 /\ h[y] = ">") => x <= y
          IN {h[k] : k \in (p + 1)..(q - 1)}

\* the sender names the domain, in whatever case
Names(h, domains) == SenderTokens(h) \cap domains # {}

ExpectedParser(h) ==
  IF Names(h, {"linkedin.com", "LinkedIn.com"}) THEN "linkedin"
  ELSE IF Names(h, {"indeed.com", "Indeed.com"}) THEN "indeed"
  ELSE IF Names(h, {"glassdoor.com", "Glassdoor.com"}) THEN "glassdoor"
  ELSE "generic"

\* C10: for a message with an HTML body exactly one parser is invoked, the first
\* of LinkedIn, Indeed, Glassdoor that accepts the lowercased sender (the
\* bracketed address if there is one, else the raw header), the generic parser if
\* and only if none accepts; without an HTML body no parser is invoked.
C10_OneParser ==
  dInvoked # Pending =>
    dInvoked = (IF dHtml THEN <<ExpectedParser(dFrom)>> ELSE <<>>)

\* the header names LinkedIn outside the brackets and Glassdoor, capitalised, inside
C10_Witness ==
  /\ dInvoked = <<"glassdoor">>
  /\ \E k \in DOMAIN dFrom : dFrom[k] = "LinkedIn.com"
  /\ \E k \in DOMAIN dFrom : dFrom[k] = "Glassdoor.com"

\* the ids of the batch that starts at index i
BatchIds(i) == {j \in 1..Len(ids) : i < j /\ j <= i + BATCH_SIZE}

\* C11: without shouldArchive the run archives nothing; with it, archive requests
\* go out in batches of at most BATCH_SIZE listed ids, a batch only after every
\* request of the batch before it has completed, no id twice, and a successful
\* run has archived every listed id exactly once, whether or not its message
\* produced a job.
C11_ArchiveListedOnce ==
  /\ ~shouldArchive => ArchivedIds = {}
  /\ \A i \in DOMAIN archived : archived[i] <= 1
  /\ ArchivedIds \subseteq 1..Len(ids)
  /\ ArchivedIds # {} => "archiving" \in SeqToSet(phaseLog)
  /\ pc \in {"archive", "archSleep"} =>
       /\ shouldArchive
       /\ Cardinality(inflight) <= BATCH_SIZE
       /\ idx % BATCH_SIZE = 0
       /\ \A i \in 1..Len(ids) : i <= idx => archived[i] = 1
       /\ \A i \in 1..Len(ids) : i > idx + BATCH_SIZE => archived[i] = 0
       /\ IF pc = "archive"
          THEN /\ inflight # {}
               /\ inflight \subseteq BatchIds(idx)
               /\ \A i \in BatchIds(idx) : archived[i] = (IF i \in inflight THEN 0 ELSE 1)
          ELSE /\ inflight = {}
               /\ idx + BATCH_SIZE < Len(ids)
               /\ \A i \in BatchIds(idx) : archived[i] = 1
  /\ (outcome = "success" /\ shouldArchive) =>
       \A i \in DOMAIN archived : archived[i] = (IF i \in 1..Len(ids) THEN 1 ELSE 0)

\* a successful archiving run over two batches in which message 3, which has no
\* HTML body and so no job, was archived as well
C11_Witness ==
  /\ outcome = "success"
  /\ shouldArchive
  /\ Len(ids) > BATCH_SIZE
  /\ ~Msg(3, inboxN, corrupt).hasHtml
  /\ archived[3] = 1

\* C12: cleanUrl is idempotent: applied to its own result it returns that result.
C12_CleanUrlIdempotent ==
  Len(cuOut) = 2 => cuOut[2] = cuOut[1]

\* the job id an href refers to: the atom after "view/" when it is a number
IdOfHref(href) == IF href[3] \in Digits THEN href[3] ELSE "none"

\* the positions of the anchors that refer to job id
LinksOfId(id) == {k \in DOMAIN liLinks : IdOfHref(liLinks[k].href) = id}

\* the group of id contains a title link: no paragraph, a text of 5 characters or more
HasTitleLink(id) ==
  \E k \in LinksOfId(id) : ~liLinks[k].hasP /\ TextLen(liLinks[k].text) >= 5

FirstOf(S) == CHOOSE k \in S : \A j \in S : k <= j

\* C13: the LinkedIn parser returns, for every job id referred to by the anchors,
\* exactly one record if the id's anchors include a title link and none otherwise;
\* the record's url is the cleaned href of the first anchor of that id, whatever
\* the tracking suffixes; so there are never more records than distinct ids.
C13_OneRecordPerJobId ==
  liOut # <<>> =>
    LET jobs == liOut[1]
        recsOf(id) == {r \in DOMAIN jobs : IdOfHref(jobs[r].url) = id}
    IN /\ \A id \in Digits :
            /\ Cardinality(recsOf(id)) =
                 (IF LinksOfId(id) # {} /\ HasTitleLink(id) THEN 1 ELSE 0)
            /\ \A r \in recsOf(id) :
                 jobs[r].url = cleanUrl(liLinks[FirstOf(LinksOfId(id))].href)
       /\ \A r \in DOMAIN jobs : IdOfHref(jobs[r].url) \in Digits
       /\ Len(jobs) <= Cardinality({id \in Digits : LinksOfId(id) # {}})

\* three anchors of one job with two different tracking suffixes, the first of
\* them not the title link, give one record
C13_Witness ==
  /\ liOut # <<>>
  /\ Len(liOut[1]) = 1
  /\ Len(liLinks) = 3
  /\ \A k \in DOMAIN liLinks : IdOfHref(liLinks[k].href) = "1"
  /\ liLinks[1].hasP
  /\ liLinks[1].href # liLinks[2].href
  /\ cleanUrl(liLinks[1].href) # cleanUrl(liLinks[2].href)

\* the anchor at position k passes the href filter and the text filters
PassesFilters(k) == ~SkipHref(gpLinks[k].href) /\ ~SkipText(gpLinks[k].text)

\* C14: the generic parser returns exactly one record for every canonical URL
\* that has an anchor passing all filters, in whatever order the anchors of that
\* URL come, no record for any other URL, and every record has company 'Unknown'
\* and an empty location.
C14_OneRecordPerUrl ==
  gpOut # <<>> =>
    LET jobs == gpOut[1]
        urls == {cleanUrl(gpLinks[k].href) : k \in DOMAIN gpLinks}
                \cup {jobs[r].url : r \in DOMAIN jobs}
    IN /\ \A u \in urls :
            Cardinality({r \in DOMAIN jobs : jobs[r].url = u}) =
              (IF \E k \in DOMAIN gpLinks :
                    cleanUrl(gpLinks[k].href) = u /\ PassesFilters(k)
               THEN 1 ELSE 0)
       /\ \A r \in DOMAIN jobs : jobs[r].company = "Unknown" /\ jobs[r].location = ""

\* the keywords of a category of the table
KeywordsOf(type) ==
  UNION {SeqToSet(TYPE_KEYWORDS[t].keywords) :
           t \in {r \in DOMAIN TYPE_KEYWORDS : TYPE_KEYWORDS[r].type = type}}

\* some keyword of the category occurs in the title, letter case apart
Occurs(type, title) ==
  \E kw \in KeywordsOf(type) :
    \E k \in 1..Len(title) :
      /\ k + Len(kw) - 1 <= Len(title)
      /\ \A j \in 1..Len(kw) : LowerTok(title[k + j - 1]) = kw[j]

\* C15: inferType returns the first of developer, game-dev, designer, it-support,
\* data-entry that has a keyword occurring in the lowercased title, and 'other'
\* exactly when no category has one.
C15_FirstCategoryWins ==
  itOut # <<>> =>
    itOut[1] = (IF Occurs("developer", itTitle) THEN "developer"
                ELSE IF Occurs("game-dev", itTitle) THEN "game-dev"
                ELSE IF Occurs("designer", itTitle) THEN "designer"
                ELSE IF Occurs("it-support", itTitle) THEN "it-support"
                ELSE IF Occurs("data-entry", itTitle) THEN "data-entry"
                ELSE "other")

\* a designer keyword comes first in the title, a developer keyword after it
C15_Witness ==
  /\ itTitle = <<"UI", " ", "designer", "React">>
  /\ itOut = <<"developer">>

\* the first MAX_URL_LENGTH characters of u are the string v
IsPrefixKey(u, v) == StrLen(v) <= MAX_URL_LENGTH /\ AgreeOnPrefix(u, v)

\* C16: the jobs the dedup cache of a run is built from include, by URL key and by
\* title/company key, every job that was in the store before the run, whichever
\* earlier run of the session persisted it and however that run ended.
C16_CacheCoversStore ==
  snapshot.loaded =>
    \A k \in DOMAIN store :
      store[k].run < runNo =>
        /\ \E i \in DOMAIN snapshot.jobs : IsPrefixKey(store[k].url, snapshot.jobs[i].url)
        /\ \E i \in DOMAIN snapshot.jobs :
             /\ snapshot.jobs[i].title = store[k].title
             /\ snapshot.jobs[i].company = store[k].company

\* both keys of document d are in cache c
HasBothKeys(c, d) ==
  /\ \E u \in c.urls : IsPrefixKey(d.url, u)
  /\ <<d.title, "|", d.company>> \in c.titleCompany

\* C17: while a run saves, the cache changes only when a persist call has
\* succeeded, and then by exactly the two keys of the job just stored; a rejected
\* persist call leaves cache and store as they were; after every step both keys
\* of every job the run has persisted are in the cache.
C17_CacheFollowsStore ==
  [][ /\ (pc \in {"saveLoop", "persist"} /\ cache' # cache) =>
           /\ pc = "persist"
           /\ Len(store') = Len(store) + 1
           /\ cache'.urls = cache.urls \cup {Last(store').url}
           /\ cache'.titleCompany =
                cache.titleCompany \cup {<<Last(store').title, "|", Last(store').company>>}
      /\ (pc = "persist" /\ store' = store) => cache' = cache
      /\ (pc = "persist" /\ store' # store) => HasBothKeys(cache', Last(store'))
      /\ \A k \in DOMAIN store' :
           store'[k].run = runNo' => HasBothKeys(cache', store'[k]) ]_vars

\* a persist call is rejected after another one of the run has succeeded
C17_Witness ==
  /\ Len(saveLog) >= 2
  /\ saveLog[1].result = "persisted"
  /\ Last(saveLog).result = "failed"
  /\ PersistedByRun = 1

\* the candidate's URL key or its title/company key is in cache c
KnownTo(c, job) ==
  \/ \E u \in c.urls : IsPrefixKey(job.url, u)
  \/ <<job.title, "|", job.company>> \in c.titleCompany

\* C18: a candidate reaching the saving loop is skipped, with store and count
\* unchanged, if and only if its truncated URL is in the cache's URL set or its
\* title/company pair is in the pair set; otherwise it is handed to addJob.
C18_HasIsEitherKey ==
  [][ (pc = "saveLoop" /\ idx < Len(allJobs) /\ thrown' = "none") =>
        IF KnownTo(cache, allJobs[idx + 1])
        THEN /\ pc' = "saveLoop"
             /\ idx' = idx + 1
             /\ store' = store
             /\ newJobsCount' = newJobsCount
             /\ Last(saveLog').result = "known"
        ELSE /\ pc' = "persist"
             /\ idx' = idx
             /\ saveLog' = saveLog ]_vars

\* one candidate is skipped for its title and company alone, another for its
\* URL alone
C18_Witness ==
  /\ \E j, k \in DOMAIN saveLog :
       /\ j < k
       /\ saveLog[j].result = "persisted"
       /\ saveLog[k].result = "known"
       /\ saveLog[j].job.title = saveLog[k].job.title
       /\ saveLog[j].job.company = saveLog[k].job.company
       /\ ~AgreeOnPrefix(saveLog[j].job.url, saveLog[k].job.url)
  /\ \E j, k \in DOMAIN saveLog :
       /\ j < k
       /\ saveLog[j].result = "persisted"
       /\ saveLog[k].result = "known"
       /\ saveLog[j].job.title # saveLog[k].job.title
       /\ AgreeOnPrefix(saveLog[j].job.url, saveLog[k].job.url)

\* a title or company name in lower case
LowerName(t) ==
  CASE t = "React Developer" -> "react developer"
    [] t = "Data Clerk"      -> "data clerk"
    [] t = "QA Tester"       -> "qa tester"
    [] t = "Designer"        -> "designer"
    [] t = "Hidden"          -> "hidden"
    [] t = "Game Artist"     -> "game artist"
    [] t = "Archivist"       -> "archivist"
    [] t = "Acme"            -> "acme"
    [] t = "ACME"            -> "acme"
    [] t = "Beta"            -> "beta"
    [] t = "Cora"            -> "cora"
    [] t = "Dune"            -> "dune"
    [] t = "Nobody"          -> "nobody"
    [] t = "Echo"            -> "echo"
    [] t = "Oldco"           -> "oldco"
    [] t = "Unknown"         -> "unknown"
    [] OTHER                 -> t

\* C19: a candidate whose title and company equal, letter case apart, those of a
\* job persisted earlier in the run is found by has() and is not handed to addJob.
C19_TitleCompanyCaseInsensitive ==
  \A j, k \in DOMAIN saveLog :
    ( /\ j < k
      /\ saveLog[j].result = "persisted"
      /\ LowerName(saveLog[j].job.title) = LowerName(saveLog[k].job.title)
      /\ LowerName(saveLog[j].job.company) = LowerName(saveLog[k].job.company) )
    => saveLog[k].result = "known"

\* what holds of getMessages wherever the run stands
FetchBatches ==
  /\ pc = "get" =>
       /\ inflight # {}
       /\ Cardinality(inflight) <= BATCH_SIZE
       /\ inflight \subseteq BatchIds(idx)
       /\ idx % BATCH_SIZE = 0
       /\ messages = SubSeq(ids, 1, idx)
  /\ pc = "getSleep" =>
       /\ inflight = {}
       /\ idx + BATCH_SIZE < Len(ids)
       /\ messages = SubSeq(ids, 1, idx + BATCH_SIZE)
  /\ pc \in {"parse", "snapshot", "saveLoop", "persist"} => messages = ids

\* C20: getMessages requests the bodies in consecutive batches of at most
\* BATCH_SIZE ids; a batch is issued as a whole, the next one only after every
\* request of the one before has completed and the delay has elapsed; no delay
\* follows the last batch; the messages returned are in the order of the ids.
C20_FetchInBatches ==
  [][ /\ FetchBatches'
      /\ (pc # "get" /\ pc' = "get") =>
           /\ pc \in {"list", "getSleep"}
           /\ inflight = {}
           /\ idx' = (IF pc = "list" THEN 0 ELSE idx + BATCH_SIZE)
           /\ inflight' = {j \in 1..Len(ids') : idx' < j /\ j <= idx' + BATCH_SIZE}
      /\ (pc = "get" /\ pc' = "get") =>
           /\ idx' = idx
           /\ inflight' \subseteq inflight
           /\ inflight' # inflight => messages' = messages
      /\ (pc = "get" /\ pc' = "getSleep") => idx + BATCH_SIZE < Len(ids)
      /\ (pc = "get" /\ pc' = "parse") =>
           /\ idx + BATCH_SIZE >= Len(ids)
           /\ messages' = ids ]_vars

\* the delay between the first batch and the second
C20_Witness ==
  /\ pc = "getSleep"
  /\ Len(messages) = BATCH_SIZE
  /\ Len(ids) = BATCH_SIZE + 1
  /\ inflight = {}

\* candidates the saving loop has gone through (addJobIfNotExists returned)
Processed == Cardinality({k \in DOMAIN saveLog : saveLog[k].result # "failed"})

\* what a report says against what the run has done
ReportAccurate ==
  /\ 0 <= progress.current
  /\ progress.current <= progress.total
  /\ progress.phase = "fetching" =>
       /\ progress.current = Len(messages)
       /\ progress.total = Len(ids)
  /\ progress.phase = "saving" =>
       /\ progress.current = Processed
       /\ progress.total = Len(allJobs)
  /\ runNo > 0 =>
       /\ progress.newJobsCount = PersistedByRun
       /\ progress.newJobsCount = newJobsCount
       /\ progress.newJobsCount <= Processed

\* C21: every progress report of a run is accurate: 0 <= current <= total;
\* current never decreases within a phase; during fetching current is the number
\* of messages retrieved so far and during saving the number of candidates
\* processed so far; newJobsCount never decreases within a run, never exceeds the
\* number of candidates processed and equals the number of jobs the run has
\* persisted at that point.
C21_ProgressAccurate ==
  [][ /\ ReportAccurate'
      /\ runNo' = runNo =>
           /\ progress'.newJobsCount >= progress.newJobsCount
           /\ progress'.phase = progress.phase =>
                progress'.current >= progress.current ]_vars

\* a Saving report after a duplicate and a new job
C21_Witness ==
  /\ progress.phase = "saving"
  /\ pc = "saveLoop"
  /\ progress.current >= 2
  /\ progress.newJobsCount >= 1
  /\ progress.newJobsCount < progress.current

\* parseEmail returns no record for the message: no HTML body, or nothing parsed
NoRecords(m) == ~m.hasHtml \/ parseEmail(m) = <<>>

\* C22: a message without HTML body, or for which the selected parser yields no
\* record, never ends the run: the iteration of the parsing loop that meets it
\* (no stop pending) adds no candidate and goes on to the next message, and a run
\* that ends in success with archiving requested has archived that message.
C22_EmptyMessageNeverFatal ==
  [][ /\ ( /\ pc = "parse"
           /\ idx < Len(messages)
           /\ ~aborted
           /\ NoRecords(Msg(messages[idx + 1], inboxN, corrupt)) )
         => /\ pc' = "parse"
            /\ idx' = idx + 1
            /\ allJobs' = allJobs
            /\ outcome' = "none"
      /\ (outcome' = "success" /\ shouldArchive') =>
           \A i \in 1..Len(ids') :
             NoRecords(Msg(i, inboxN', corrupt')) => archived'[i] = 1 ]_vars

\* the fallback chain: the Date header if usable, else internalDate, else now
ExpectedDate(m) ==
  IF m.date \notin {Null, "invalid"} THEN <<"header", m.date>>
  ELSE IF m.internalDate # Null THEN <<"internal", m.internalDate>>
  ELSE <<"now">>

\* C23: dateReceived of every candidate is the Date header when present and
\* usable, otherwise internalDate, otherwise the current time, and no message
\* fails the run in the parsing loop because of its Date header.
C23_DateFallbackChain ==
  /\ \A k \in DOMAIN allJobs :
       allJobs[k].dateReceived
         = ExpectedDate(Msg(allJobs[k].emailId, inboxN, corrupt))
  /\ failOp # "parse"

\* a cleaned text with nothing in it but white space
Blank(t) == \A k \in 1..Len(t) : t[k] \in {" ", "&nbsp;"}

\* the records a parser call returned
Emitted(out) == IF out = <<>> THEN {} ELSE SeqToSet(out[1])

\* C24: every record emitted by any of the four parsers has a title that is
\* non-empty after trimming, a non-empty url and a non-empty company, which is
\* 'Unknown' when the parser found no company.
C24_RecordsComplete ==
  /\ \A r \in Emitted(liOut) \cup Emitted(gpOut) :
       /\ r.title \notin {"", " "}
       /\ r.company # ""
       /\ r.url # <<>>
  /\ \A r \in Emitted(gpOut) : r.company = "Unknown"
  /\ \A r \in Emitted(gdOut) \cup Emitted(inOut) :
       /\ ~Blank(r.title)
       /\ r.title[1] # " " /\ r.title[Len(r.title)] # " "
       /\ r.company # <<>>
       /\ r.url # <<>>

\* a Glassdoor or Indeed posting in which no company was found
C24_Witness ==
  \E r \in Emitted(gdOut) \cup Emitted(inOut) :
    /\ r.company = <<"Unknown">>
    /\ r.title = <<"Widget Engineer">>

\* the tags in the order of the table
TagOrder == <<"remote", "hybrid", "onsite", "senior", "junior", "contract", "fulltime">>

\* some keyword of the tag occurs in the lowercased text
TagOccurs(tag, text) ==
  \E r \in DOMAIN TAG_KEYWORDS :
    /\ TAG_KEYWORDS[r].tag = tag
    /\ \E i \in DOMAIN TAG_KEYWORDS[r].keywords :
         LET kw == TAG_KEYWORDS[r].keywords[i]
             lower == toLowerCase(text)
         IN \E k \in 1..(Len(lower) - Len(kw) + 1) :
              \A j \in 1..Len(kw) : lower[k + j - 1] = kw[j]

\* C25: inferTags returns a list (possibly empty) that holds each tag at most
\* once, holds a tag exactly when one of its keywords occurs in the lowercased
\* text, and lists the tags in the order remote, hybrid, onsite, senior, junior,
\* contract, fulltime, whichever keyword matched and wherever it stands.
C25_TagsInTableOrder ==
  tagOut # <<>> =>
    LET tags == tagOut[1]
    IN /\ \A i, j \in DOMAIN tags : i # j => tags[i] # tags[j]
       /\ \A k \in DOMAIN TagOrder :
            (\E i \in DOMAIN tags : tags[i] = TagOrder[k])
              <=> TagOccurs(TagOrder[k], tagText)
       /\ \A i, j \in DOMAIN tags :
            i < j => \E a, b \in DOMAIN TagOrder :
                       a < b /\ TagOrder[a] = tags[i] /\ TagOrder[b] = tags[j]

\* a text naming the seniority before the place, and the place by two keywords
C25_Witness ==
  /\ tagText = <<"Senior", " ", "Remote", "wfh">>
  /\ tagOut = << <<"remote", "senior">> >>

C27_StoreFreeOfDuplicates ==
  \A i, j \in DOMAIN store :
    i < j =>
      /\ truncateUrl(store[i].url) # truncateUrl(store[j].url)
      /\ TitleCompanyKey(store[i]) # TitleCompanyKey(store[j])

\* every candidate of the run went through addJobIfNotExists and was persisted
\* or found in the cache
AllCandidatesSettled ==
  /\ Len(parserLog) = Len(ids)
  /\ Len(saveLog) = Len(allJobs)
  /\ \A k \in DOMAIN saveLog :
       /\ saveLog[k].job = allJobs[k]
       /\ saveLog[k].result \in {"persisted", "known"}

\* C28: a run archives no message before its saving loop has gone through every
\* candidate without cancellation or failure; a run cancelled or failed during
\* listing, fetching, parsing or saving has archived nothing.
C28_ArchiveOnlyAfterSaving ==
  /\ ArchivedIds # {} => AllCandidatesSettled
  /\ pc \in {"archive", "archSleep"} => AllCandidatesSettled
  /\ failPhase \in {"listing", "fetching", "parsing", "saving"} => ArchivedIds = {}
  /\ pc \in {"list", "get", "getSleep", "parse", "snapshot", "saveLoop", "persist"}
       => ArchivedIds = {}

\* messages are being archived after a saving loop that met a new job and a
\* known one
C28_Witness ==
  /\ pc = "archive"
  /\ ArchivedIds # {}
  /\ \E k \in DOMAIN saveLog : saveLog[k].result = "persisted"
  /\ \E k \in DOMAIN saveLog : saveLog[k].result = "known"

\* C29: cancellation is scoped to the run in progress. Every run starts with a
\* new signal that is not aborted, whatever stop requests were made before;
\* while a run is in progress its signal becomes aborted only by a stop request
\* made during that run, and never becomes non-aborted again; a run throws
\* Stopped or is reported as stopped only if its own signal is aborted.
C29_CancellationScoped ==
  [][ /\ (pc = "idle" /\ pc' # "idle")
         => (~aborted' /\ abortRef' = runNo' /\ abortRef' # abortRef)
      /\ (pc # "idle" /\ aborted' # aborted)
         => (aborted' /\ UNCHANGED <<runNo, abortRef, pc, progress, outcome>>)
      /\ (pc # "idle" /\ (thrown' = "Stopped" \/ outcome' = "cancelled"))
         => (aborted /\ abortRef = runNo /\ runNo' = runNo)
      /\ (pc # "idle" /\ ~aborted)
         => (thrown' # "Stopped" /\ outcome' # "cancelled")
    ]_vars

\* the second run completed with messages listed, although the signal of the
\* first run was aborted when it started
C29_Witness ==
  /\ runNo = 2
  /\ staleStop
  /\ ~aborted
  /\ outcome = "success"
  /\ Len(ids) >= 1
  /\ pc = "idle"

\* C30: every run terminates. isFetching is true exactly while a run is in
\* progress, and no terminal report is shown during that time; provided every
\* external call eventually returns or fails, each run eventually ends with
\* isFetching false and exactly one terminal report (done or error), the last of
\* its reports; after it no report is issued until the next run starts.
C30_RunTerminates ==
  /\ [](isFetching <=> pc # "idle")
  /\ [](isFetching => ~Terminal(progress.phase))
  /\ isFetching ~> ~isFetching
  /\ [][ /\ (isFetching /\ ~isFetching')
            => /\ runNo' = runNo
               /\ Terminal(progress'.phase)
               /\ Last(phaseLog') = progress'.phase
               /\ Cardinality({k \in DOMAIN phaseLog' : Terminal(phaseLog'[k])}) = 1
         /\ (~isFetching /\ ~isFetching') => UNCHANGED <<progress, phaseLog>>
       ]_vars

\* a run that failed while archiving has ended with the error report
C30_Witness ==
  /\ runNo >= 1
  /\ ~isFetching
  /\ pc = "idle"
  /\ outcome = "error"
  /\ failPhase = "archiving"
  /\ progress.phase = "error"

====
